---------------------------- MODULE Spec2Model ----------------------------
(***************************************************************************)
(* Force-tracking test rig: the concurrent control loop of                 *)
(* src/RPi5_LoadCell_LActuator_csv.py.                                     *)
(*                                                                         *)
(* Threads: the main thread (sequence runner and the feedback routine      *)
(* feedback_extend_to_target), the ForceSampler thread                     *)
(* (read_force_continuous) and the MotionDriver thread (actuator_pwm_loop).*)
(*                                                                         *)
(* Units.  Forces are integers in hundredths of a pound.  Duties are       *)
(* integers in units of 1/DutyOne, so DutyOne is the duty 1.0.  The gain   *)
(* Kp is an integer multiple of 0.005 per pound: with DutyOne = 20000 the  *)
(* product Kp * |error| of the source is KpUnits * |error in hundredths|   *)
(* exactly.  Times of the feedback routine are in milliseconds, PWM        *)
(* intervals in microseconds.                                              *)
(***************************************************************************)
EXTENDS Integers, Sequences, FiniteSets, TLC

\* ------------------------------------------------------------ constants
\* duty 1.0 in model units (the literal 1.0 of min(1.0, ...))
DutyOne == 20000
\* FIXED_DUTY = 1, the initial value of current_duty
FIXED_DUTY == DutyOne
\* force_threshold = -100 lb
FORCE_THRESHOLD == -10000
\* tolerance = 0.05 lb
TOLERANCE == 5
\* update_interval = 0.05 s
UPDATE_INTERVAL_MS == 50
\* Kp = 0.005, one gain unit
KP_DEFAULT == 1
\* period = 1.0 / frequency with frequency = 50, in microseconds
PERIOD_US == 20000
\* TARGET_FORCES = [-1, -2, -3, -4, -3, -2, -1] lb
TARGET_FORCES == <<-100, -200, -300, -400, -300, -200, -100>>

\* ------------------------------------------------------------ bounds
\* how many setpoints of TARGET_FORCES one repetition of the model runs
NumTargets == 2
\* how many repetitions the model runs (REPETITIONS = 10 in the source)
NumReps == 1
\* how many repetitions the model of the repetition record runs
RecReps == 2
\* max_seconds of the model's feedback calls, in milliseconds
MaxDurationMs == 60

\* calibrated forces the sampler can publish: below the safety threshold,
\* at the second setpoint, far above every setpoint
ForceValues == {-10100, -200, 19900}
\* the inputs of the feedback routine taken alone
KpValues == {-1, 0, 1, 200}
LawTargets == {-100, 0}
LawForces == {-10100, -130, -100, -97, 0, 19900}

\* ------------------------------------------------------------ helpers
Abs(x) == IF x < 0 THEN -x ELSE x
Min(a, b) == IF a <= b THEN a ELSE b
Max(a, b) == IF a >= b THEN a ELSE b

VARIABLES
  \* shared state, lines 133-136
  current_force, current_duty, current_dir, lock,
  \* which write produced each field of CommandState: the pair that write wrote
  dutyTag, dirTag,
  \* GPIO lines
  rpwm, lpwm, enable, clock,
  \* threading.Event objects
  read_stop_event, actuator_stop_event,
  \* main thread: position, loop indices, the feedback routine's frame
  mainPc, rep, tgtIdx, target_force, Kp, max_seconds, fbDuty, fbDirection,
  elapsed, exc,
  \* MotionDriver thread: position and locals; of the local force only the
  \* outcome of its one use, the test force < force_threshold, is kept
  mdPc, mdDuty, mdDirection, mdBreach, mdDutyTag, mdDirTag, high_time, low_time,
  \* ForceSampler thread
  smPc,
  \* observations of the run
  cmdWritten, everBreach, fbReturned, droveInCall, wroteStop, wroteZero,
  stopAfter, dirStopAtCall, fbPath, fbResult,
  \* one HX711 read() taken alone: the variant of the routine, its position,
  \* its locals, and what the data line has delivered
  hxVariant, hxPc, hxValue, hxBits, hxCount, hxResult, hxOutcome,
  hxReady, hxWord, hxPulses, hxSamples,
  \* one manual drive routine taken alone: which routine, its arguments and
  \* its locals
  manRoutine, manDuty, manCycles, manI, manHigh, manLow, manRan, manHighSum,
  \* the main block before its try statement: how many of the GPIO lines
  \* the two constructors have requested so far
  acquired,
  \* a sampling loop taken with its reads: the script it belongs to, its
  \* arguments samples and mechanical_noise_factor, the values read() has
  \* returned in the current iteration, and whether the sensor holds the
  \* data line low (a conversion is ready)
  calScript, calSamples, calNoise, calReadings, calReady,
  \* one repetition with its record: the logger thread's position and its
  \* local f, its stop signal, the target holder, whether the record file is
  \* open, and the last row written
  logPc, logF, log_stop_event, target_holder, fileOpen, lastRow,
  \* the line writes and sleeps of the latest cycle of the MotionDriver and
  \* of a manual drive routine, kept only where two cycles are compared
  cycLog, mdTrace, manTrace,
  \* the recovery loop of a sensor script: the script, its position, whether
  \* power_up() has run, the time since then, the time since then at the
  \* start of the last read, the power cycles done
  rcScript, rcPc, rcWoke, sinceWake, rcReadAt, rcCycles

sharedv == <<current_force, current_duty, current_dir, lock, dutyTag, dirTag>>
cmdv == <<current_duty, current_dir, dutyTag, dirTag>>
linev == <<rpwm, lpwm, enable, clock>>
eventv == <<read_stop_event, actuator_stop_event>>
seqv == <<rep, tgtIdx, target_force, Kp, max_seconds>>
framev == <<fbDuty, fbDirection, elapsed>>
mdlocv == <<mdDuty, mdDirection, mdBreach, mdDutyTag, mdDirTag, high_time, low_time>>
histv == <<cmdWritten, everBreach, fbReturned, droveInCall, wroteStop, wroteZero,
           stopAfter, dirStopAtCall, fbPath, fbResult>>
hxv == <<hxVariant, hxPc, hxValue, hxBits, hxCount, hxResult, hxOutcome, hxReady,
        hxWord, hxPulses, hxSamples>>
manv == <<manRoutine, manDuty, manCycles, manI, manHigh, manLow, manRan, manHighSum>>
calv == <<calScript, calSamples, calNoise, calReadings, calReady>>
recv == <<logPc, logF, log_stop_event, target_holder, fileOpen, lastRow>>
cycv == <<cycLog, mdTrace, manTrace>>
rcv == <<rcScript, rcPc, rcWoke, sinceWake, rcReadAt, rcCycles>>
devv == <<hxv, manv, acquired, calv, recv, cycv, rcv>>
vars == <<sharedv, linev, eventv, mainPc, seqv, framev, exc, mdPc, mdlocv, smPc, histv,
          devv>>

\* ------------------------------------------------------------ pure parts
\* line 218: abs(error) <= tolerance
WithinTolerance(err) == Abs(err) <= TOLERANCE

\* line 226: (time.time() - start_ts) > max_seconds
TimedOutMutant(el, maxs) == el > 2 * maxs
TimedOut(el, maxs) == el > maxs

\* line 234: duty = min(1.0, Kp * abs(error))
ControlDuty(kp, err) == Min(DutyOne, kp * Abs(err))

\* line 235: direction = -1 if error > 0 else 1
ControlDirection(err) == IF err > 0 THEN -1 ELSE 1

\* line 165: force < force_threshold
Breach(force) == force < FORCE_THRESHOLD

\* lines 170-171: the locals of the cycle after an override
OverrideDuty(duty) == DutyOne
OverrideDirectionMutant(direction) == direction
OverrideDirection(direction) == -1

\* line 174: duty <= 0 or direction == 0
NoMotionMutant(duty, direction) == duty <= 0
NoMotion(duty, direction) == duty <= 0 \/ direction = 0

\* line 177: time.sleep(period), the one sleep of a no-motion cycle
NoMotionSleep == PERIOD_US

\* line 181: high_time = period * max(0.0, min(duty, 1.0))
HighTime(duty) == (PERIOD_US * Max(0, Min(duty, DutyOne))) \div DutyOne

\* line 182: low_time = period - high_time
LowTime(duty) == PERIOD_US - HighTime(duty)

\* the sleeps of one cycle, lines 177 and 187-189 (193-195)
CycleLength(duty, direction) ==
  IF NoMotion(duty, direction) THEN NoMotionSleep
                               ELSE HighTime(duty) + LowTime(duty)

\* threading.Lock: acquire succeeds only when nobody holds it
CanAcquireMutant == TRUE
CanAcquire == lock = "none"

\* the function falls off its end after the finally block: it returns None
\* whichever branch broke the loop
ReturnValue(path) == "None"

\* line 245: an exception raised in the try body enters the finally block
FinallyEntryMutant == "h_dis_r"
FinallyEntry == "fb_fin_dir"

\* the neutral command
Neutral == <<0, 0>>
\* the value of CommandState at import time, lines 134-135
InitialDutyMutant == Neutral[1]
InitialDuty == FIXED_DUTY
InitialDir == 0


\* ------------------------------------------------------------ initial state
\* module level of the script (lines 133-136) and the lines as requested
\* (outputs low), before the main block starts the threads
InitRest ==
  /\ lock = "none"
  /\ rpwm = 0 /\ lpwm = 0 /\ enable = 0 /\ clock = 0
  /\ read_stop_event = FALSE /\ actuator_stop_event = FALSE
  /\ rep = 1 /\ tgtIdx = 0
  /\ fbDuty = 0 /\ fbDirection = 0 /\ elapsed = 0
  /\ exc = "none"
  /\ mdDuty = 0 /\ mdDirection = 0 /\ mdBreach = FALSE
  /\ mdDutyTag = Neutral /\ mdDirTag = Neutral
  /\ high_time = 0 /\ low_time = 0
  /\ cmdWritten = FALSE /\ everBreach = FALSE /\ fbReturned = FALSE
  /\ droveInCall = FALSE /\ wroteStop = FALSE /\ wroteZero = FALSE
  /\ stopAfter = FALSE /\ dirStopAtCall = FALSE
  /\ fbPath = "none" /\ fbResult = "pending"

\* lines 75-81 and 34-37: the lines in the order the constructors of lines
\* 254-255 request them
AcquireOrder == <<"rpwm", "lpwm", "enable", "data", "clock">>

\* lines 254-255 have completed: every line is held
LinesHeld == acquired = Len(AcquireOrder)

\* no read() of the sensor script variants and no manual drive routine is
\* in progress
HxIdle ==
  /\ hxVariant = "none" /\ hxPc = "hx_idle"
  /\ hxValue = 0 /\ hxBits = 0 /\ hxCount = 0
  /\ hxResult = 0 /\ hxOutcome = "pending"
  /\ hxReady = FALSE /\ hxWord = 0 /\ hxPulses = 0 /\ hxSamples = 0

\* no record of line writes is kept
CycIdle ==
  /\ cycLog = FALSE /\ mdTrace = <<>> /\ manTrace = <<>>

\* no repetition with a modelled record is running
RecIdle ==
  /\ logPc = "l_idle" /\ logF = 0 /\ log_stop_event = FALSE
  /\ target_holder = <<>> /\ fileOpen = FALSE /\ lastRow = <<>>

\* no recovery loop of a sensor script is running
RcIdle ==
  /\ rcScript = "none" /\ rcPc = "rc_idle" /\ rcWoke = FALSE
  /\ sinceWake = 0 /\ rcReadAt = 0 /\ rcCycles = 0

\* no sampling loop with modelled reads is running
CalIdle ==
  /\ calScript = "none" /\ calSamples = 1 /\ calNoise = 1
  /\ calReadings = <<>> /\ calReady = FALSE

ManIdle ==
  /\ manRoutine = "none" /\ manDuty = 0 /\ manCycles = 0 /\ manI = 0
  /\ manHigh = 0 /\ manLow = 0 /\ manRan = 0 /\ manHighSum = 0

\* lines 134-135
InitCommand ==
  /\ current_duty = InitialDuty
  /\ current_dir = InitialDir
  /\ dutyTag = <<InitialDuty, InitialDir>>
  /\ dirTag = <<InitialDuty, InitialDir>>

Init ==
  /\ InitRest /\ LinesHeld /\ CalIdle /\ RecIdle /\ RcIdle /\ CycIdle
  /\ HxIdle /\ ManIdle
  /\ InitCommand
  /\ mdPc = "a_idle"
  /\ smPc = "s_idle"
  /\ current_force = 0
  /\ mainPc = "m_start_reader"
  /\ target_force = 0
  /\ Kp = KP_DEFAULT
  /\ max_seconds = MaxDurationMs

\* ------------------------------------------------------------ main thread
\* positions of the main thread inside the try body of the feedback routine
TryPcs == {"fb_check", "fb_ok_dir", "fb_ok_duty", "fb_to_dir", "fb_to_duty",
           "fb_w_dir", "fb_w_duty", "fb_sleep"}
\* positions inside feedback_extend_to_target
FbPcs == TryPcs \cup {"fb_enable", "fb_start", "fb_fin_dir", "fb_fin_duty",
                      "fb_stop_r", "fb_stop_l"}
\* positions inside the top-level try block, lines 260-316
TopTryPcs == FbPcs \cup {"m_start_reader", "m_start_act", "m_rep", "m_open",
                         "m_tgt", "m_set_tgt", "fb_exit", "m_set_rstop",
                         "m_set_astop", "m_join_r", "m_join_a"}

\* lines 254-255 stand before the try statement of line 260: an exception
\* raised by a constructor is caught by no handler and runs no finally
\* block, the interpreter ends with a traceback
AbortPcMutant == "fin_pd"
AbortPc == "m_aborted"

\* lines 254-255 (74-81, 33-37): one line is requested, or the request
\* raises (the line is busy or missing)
AcquireLine ==
  /\ mainPc = "m_acquire"
  /\ acquired < Len(AcquireOrder)
  /\ \/ /\ acquired' = acquired + 1
        /\ mainPc' = IF acquired' = Len(AcquireOrder) THEN "m_start_reader"
                                                      ELSE "m_acquire"
        /\ exc' = exc
     \/ /\ acquired' = acquired
        /\ mainPc' = AbortPc
        /\ exc' = "OSError"
  /\ UNCHANGED <<hxv, manv, rcv, calv, recv, cycv, sharedv, linev, eventv, seqv, framev, mdPc, mdlocv,
                 smPc, histv>>

\* line 268: reader_thread.start()
StartReader ==
  /\ mainPc = "m_start_reader"
  /\ mainPc' = "m_start_act"
  /\ smPc' = "s_check"
  /\ UNCHANGED <<devv, sharedv, linev, eventv, seqv, framev, exc, mdPc, mdlocv, histv>>

\* line 273: actuator_thread.start()
StartActuator ==
  /\ mainPc = "m_start_act"
  /\ mainPc' = "m_rep"
  /\ mdPc' = "a_check"
  /\ UNCHANGED <<devv, sharedv, linev, eventv, seqv, framev, exc, mdlocv, smPc, histv>>

\* line 276: for rep in range(1, REPETITIONS + 1)
RepLoop ==
  /\ mainPc = "m_rep"
  /\ mainPc' = IF rep <= NumReps THEN "m_open" ELSE "m_set_rstop"
  /\ UNCHANGED <<devv, sharedv, linev, eventv, seqv, framev, exc, mdPc, mdlocv, smPc, histv>>

\* lines 280-300: the record file is opened (and may fail with OSError)
OpenRecord ==
  /\ mainPc = "m_open"
  /\ \/ /\ mainPc' = "m_tgt"
        /\ exc' = exc
     \/ /\ mainPc' = "fin_pd"
        /\ exc' = "OSError"
  /\ UNCHANGED <<devv, sharedv, linev, eventv, seqv, framev, mdPc, mdlocv, smPc, histv>>

\* line 303: for tgt in TARGET_FORCES; and the end of the repetition
TargetLoop ==
  /\ mainPc = "m_tgt"
  /\ IF tgtIdx < NumTargets
       THEN /\ tgtIdx' = tgtIdx + 1
            /\ rep' = rep
            /\ mainPc' = "m_set_tgt"
       ELSE /\ tgtIdx' = 0
            /\ rep' = rep + 1
            /\ mainPc' = "m_rep"
  /\ UNCHANGED <<devv, sharedv, linev, eventv, target_force, Kp, max_seconds, framev,
                 exc, mdPc, mdlocv, smPc, histv>>

\* lines 304-306: target_holder[0] = tgt; feedback_extend_to_target(actuator, tgt)
CallFeedback ==
  /\ mainPc = "m_set_tgt"
  /\ mainPc' = "fb_enable"
  /\ target_force' = TARGET_FORCES[tgtIdx]
  /\ fbDuty' = 0 /\ fbDirection' = 0 /\ elapsed' = 0
  /\ droveInCall' = FALSE
  /\ dirStopAtCall' = (current_dir = 0)
  /\ fbPath' = "none" /\ fbResult' = "pending"
  /\ UNCHANGED <<devv, sharedv, linev, eventv, rep, tgtIdx, Kp, max_seconds, exc, mdPc,
                 mdlocv, smPc, cmdWritten, everBreach, fbReturned, wroteStop,
                 wroteZero, stopAfter>>

\* line 208: actuator.enable_motor()
FbEnable ==
  /\ mainPc = "fb_enable"
  /\ mainPc' = "fb_start"
  /\ enable' = 1
  /\ UNCHANGED <<devv, sharedv, rpwm, lpwm, clock, eventv, seqv, framev, exc, mdPc,
                 mdlocv, smPc, histv>>

\* line 211: start_ts = time.time()
FbStart ==
  /\ mainPc = "fb_start"
  /\ mainPc' = "fb_check"
  /\ elapsed' = 0
  /\ UNCHANGED <<devv, sharedv, linev, eventv, seqv, fbDuty, fbDirection, exc,
                 mdPc, mdlocv, smPc, histv>>

\* lines 215-235: one read of current_force, then the two exit tests and the
\* control law, all on locals
FbCheck ==
  /\ mainPc = "fb_check"
  /\ LET err == target_force - current_force IN
       /\ IF WithinTolerance(err)
            THEN /\ mainPc' = "fb_ok_dir"
                 /\ UNCHANGED <<fbDuty, fbDirection>>
            ELSE IF TimedOut(elapsed, max_seconds)
              THEN /\ mainPc' = "fb_to_dir"
                   /\ UNCHANGED <<fbDuty, fbDirection>>
              ELSE /\ mainPc' = "fb_w_dir"
                   /\ fbDuty' = ControlDuty(Kp, err)
                   /\ fbDirection' = ControlDirection(err)
  /\ UNCHANGED <<devv, sharedv, linev, eventv, seqv, elapsed, exc, mdPc, mdlocv, smPc, histv>>

\* with _state_lock: current_dir = d   (the first statement of a critical
\* section of the routine; the lock is taken here)
CtlWriteDir(from, to, d, pair) ==
  /\ mainPc = from
  /\ CanAcquire
  /\ mainPc' = to
  /\ lock' = "main"
  /\ current_dir' = d
  /\ dirTag' = pair
  /\ wroteStop' = (d = 0)
  /\ stopAfter' = FALSE
  /\ cmdWritten' = TRUE
  /\ droveInCall' = (droveInCall \/ d # 0)
  /\ UNCHANGED <<devv, current_force, current_duty, dutyTag, linev, eventv, seqv,
                 framev, exc, mdPc, mdlocv, smPc, everBreach, fbReturned,
                 wroteZero, dirStopAtCall, fbPath, fbResult>>

\* current_duty = v, the last statement of the critical section; the lock is
\* released on leaving the with block.  The locals duty and direction are
\* not read again before line 234 assigns them anew
CtlWriteDuty(from, to, v, pair, path) ==
  /\ mainPc = from
  /\ mainPc' = to
  /\ lock' = "none"
  /\ current_duty' = v
  /\ dutyTag' = pair
  /\ wroteZero' = (v = 0)
  /\ stopAfter' = FALSE
  /\ fbPath' = path
  /\ fbDuty' = 0 /\ fbDirection' = 0
  /\ UNCHANGED <<devv, current_force, current_dir, dirTag, linev, eventv, seqv, elapsed,
                 exc, mdPc, mdlocv, smPc, cmdWritten, everBreach, fbReturned,
                 droveInCall, wroteStop, dirStopAtCall, fbResult>>

\* lines 219-223: target reached
FbOkDir == CtlWriteDir("fb_ok_dir", "fb_ok_duty", 0, Neutral)
FbOkDuty == CtlWriteDuty("fb_ok_duty", "fb_fin_dir", 0, Neutral, "success")

\* lines 227-231: timeout
FbToDir == CtlWriteDir("fb_to_dir", "fb_to_duty", 0, Neutral)
FbToDuty == CtlWriteDuty("fb_to_duty", "fb_fin_dir", 0, Neutral, "timeout")

\* lines 237-239: the driving command
FbWDir == CtlWriteDir("fb_w_dir", "fb_w_duty", fbDirection, <<fbDuty, fbDirection>>)
FbWDuty == CtlWriteDuty("fb_w_duty", "fb_sleep", fbDuty, <<fbDuty, fbDirection>>, fbPath)

\* line 243: time.sleep(update_interval)
FbSleep ==
  /\ mainPc = "fb_sleep"
  /\ mainPc' = "fb_check"
  /\ elapsed' = elapsed + UPDATE_INTERVAL_MS
  /\ UNCHANGED <<devv, sharedv, linev, eventv, seqv, fbDuty, fbDirection, exc,
                 mdPc, mdlocv, smPc, histv>>

\* lines 246-248: the finally block's neutral write
FbFinDir == CtlWriteDir("fb_fin_dir", "fb_fin_duty", 0, Neutral)
FbFinDuty == CtlWriteDuty("fb_fin_duty", "fb_stop_r", 0, Neutral, fbPath)

\* line 249 -> line 98: actuator.stop(): self.rpwm.set_value(0)
FbStopR ==
  /\ mainPc = "fb_stop_r"
  /\ mainPc' = "fb_stop_l"
  /\ rpwm' = 0
  /\ UNCHANGED <<devv, sharedv, lpwm, enable, clock, eventv, seqv, framev, exc, mdPc,
                 mdlocv, smPc, histv>>

\* line 99: self.lpwm.set_value(0); the routine is left
FbStopLMutant ==
  /\ mainPc = "fb_stop_l"
  /\ mainPc' = "fb_exit"
  /\ lpwm' = 0
  /\ enable' = 0
  /\ stopAfter' = TRUE
  /\ fbReturned' = TRUE
  /\ fbResult' = IF exc = "none" THEN ReturnValue(fbPath) ELSE "raised"
  /\ UNCHANGED <<devv, sharedv, rpwm, clock, eventv, seqv, framev, exc, mdPc,
                 mdlocv, smPc, cmdWritten, everBreach, droveInCall, wroteStop,
                 wroteZero, dirStopAtCall, fbPath>>

FbStopL ==
  /\ mainPc = "fb_stop_l"
  /\ mainPc' = "fb_exit"
  /\ lpwm' = 0
  /\ stopAfter' = TRUE
  /\ fbReturned' = TRUE
  /\ fbResult' = IF exc = "none" THEN ReturnValue(fbPath) ELSE "raised"
  /\ UNCHANGED <<devv, sharedv, rpwm, enable, clock, eventv, seqv, framev, exc, mdPc,
                 mdlocv, smPc, cmdWritten, everBreach, droveInCall, wroteStop,
                 wroteZero, dirStopAtCall, fbPath>>

\* once an exception is on its way to the handler of line 318 the loop
\* variables and the locals of the routine are never read again
DeadFrame ==
  /\ rep' = 1 /\ tgtIdx' = 0 /\ target_force' = 0
  /\ fbDuty' = 0 /\ fbDirection' = 0 /\ elapsed' = 0
  /\ UNCHANGED <<Kp, max_seconds>>

\* control is back in the caller: the next setpoint, or the pending exception
\* reaches the handler of line 318
FbExitMutant ==
  /\ mainPc = "fb_exit"
  /\ IF exc = "none"
       THEN /\ mainPc' = IF fbPath = "timeout" THEN "m_set_rstop" ELSE "m_tgt"
            /\ UNCHANGED <<seqv, framev, droveInCall, dirStopAtCall>>
       ELSE /\ mainPc' = "h_dis_r"
            /\ DeadFrame
            /\ droveInCall' = FALSE /\ dirStopAtCall' = FALSE
  /\ UNCHANGED <<devv, sharedv, linev, eventv, exc, mdPc, mdlocv, smPc, cmdWritten,
                 everBreach, fbReturned, wroteStop, wroteZero, stopAfter,
                 fbPath, fbResult>>

FbExit ==
  /\ mainPc = "fb_exit"
  /\ IF exc = "none"
       THEN /\ mainPc' = "m_tgt"
            /\ UNCHANGED <<seqv, framev, droveInCall, dirStopAtCall>>
       ELSE /\ mainPc' = "h_dis_r"
            /\ DeadFrame
            /\ droveInCall' = FALSE /\ dirStopAtCall' = FALSE
  /\ UNCHANGED <<devv, sharedv, linev, eventv, exc, mdPc, mdlocv, smPc, cmdWritten,
                 everBreach, fbReturned, wroteStop, wroteZero, stopAfter,
                 fbPath, fbResult>>

\* lines 313-314
SetReadStop ==
  /\ mainPc = "m_set_rstop"
  /\ mainPc' = "m_set_astop"
  /\ read_stop_event' = TRUE
  /\ UNCHANGED <<devv, sharedv, linev, actuator_stop_event, seqv, framev, exc, mdPc,
                 mdlocv, smPc, histv>>

SetActuatorStop ==
  /\ mainPc = "m_set_astop"
  /\ mainPc' = "m_join_r"
  /\ actuator_stop_event' = TRUE
  /\ UNCHANGED <<devv, sharedv, linev, read_stop_event, seqv, framev, exc, mdPc,
                 mdlocv, smPc, histv>>

\* lines 315-316
JoinReader ==
  /\ mainPc = "m_join_r"
  /\ smPc = "s_done"
  /\ mainPc' = "m_join_a"
  /\ UNCHANGED <<devv, sharedv, linev, eventv, seqv, framev, exc, mdPc, mdlocv, smPc, histv>>

JoinActuator ==
  /\ mainPc = "m_join_a"
  /\ mdPc = "a_done"
  /\ mainPc' = "fin_pd"
  /\ UNCHANGED <<devv, sharedv, linev, eventv, seqv, framev, exc, mdPc, mdlocv, smPc, histv>>

\* lines 318-320: except KeyboardInterrupt: actuator.disable_motor()
DisableLMutant ==
  /\ mainPc = "h_dis_l"
  /\ mainPc' = "h_dis_en"
  /\ UNCHANGED <<devv, sharedv, linev, eventv, seqv, framev, exc, mdPc,
                 mdlocv, smPc, histv>>

DisableR ==
  /\ mainPc = "h_dis_r"
  /\ mainPc' = "h_dis_l"
  /\ rpwm' = 0
  /\ UNCHANGED <<devv, sharedv, lpwm, enable, clock, eventv, seqv, framev, exc, mdPc,
                 mdlocv, smPc, histv>>

DisableL ==
  /\ mainPc = "h_dis_l"
  /\ mainPc' = "h_dis_en"
  /\ lpwm' = 0
  /\ UNCHANGED <<devv, sharedv, rpwm, enable, clock, eventv, seqv, framev, exc, mdPc,
                 mdlocv, smPc, histv>>

DisableEn ==
  /\ mainPc = "h_dis_en"
  /\ mainPc' = "fin_pd"
  /\ enable' = 0
  /\ UNCHANGED <<devv, sharedv, rpwm, lpwm, clock, eventv, seqv, framev, exc, mdPc,
                 mdlocv, smPc, histv>>

\* lines 321-322: finally: hx.power_down() holds the clock line high
PowerDown ==
  /\ mainPc = "fin_pd"
  /\ mainPc' = "fin_close"
  /\ clock' = 1
  /\ UNCHANGED <<devv, sharedv, rpwm, lpwm, enable, eventv, seqv, framev, exc, mdPc,
                 mdlocv, smPc, histv>>

\* lines 323-324: chip.close(); the main thread ends
CloseChip ==
  /\ mainPc = "fin_close"
  /\ mainPc' = "terminated"
  /\ UNCHANGED <<devv, sharedv, linev, eventv, seqv, framev, exc, mdPc, mdlocv, smPc, histv>>

\* KeyboardInterrupt raised in the main thread inside the try body of the
\* feedback routine (lines 213-243): a held lock is released by the with
\* block and the finally block runs with the exception pending
InterruptInTry ==
  /\ exc = "none"
  /\ mainPc \in TryPcs \cup {"fb_fin_dir"}
  /\ exc' = "KeyboardInterrupt"
  /\ mainPc' = FinallyEntry
  /\ lock' = IF mainPc \in {"fb_ok_duty", "fb_to_duty", "fb_w_duty"} THEN "none" ELSE lock
  /\ fbPath' = "exc"
  /\ DeadFrame
  /\ UNCHANGED <<devv, current_force, cmdv, linev, eventv, mdPc, mdlocv,
                 smPc, cmdWritten, everBreach, fbReturned, droveInCall, wroteStop,
                 wroteZero, stopAfter, dirStopAtCall, fbResult>>

\* KeyboardInterrupt raised anywhere else inside the top-level try block,
\* the finally block of the feedback routine included: it reaches the handler
\* of line 318 at once
InterruptOutside ==
  /\ exc = "none"
  /\ mainPc \in TopTryPcs \ TryPcs
  /\ exc' = "KeyboardInterrupt"
  /\ mainPc' = "h_dis_r"
  /\ lock' = IF mainPc = "fb_fin_duty" THEN "none" ELSE lock
  /\ DeadFrame
  /\ droveInCall' = FALSE /\ dirStopAtCall' = FALSE
  /\ UNCHANGED <<devv, current_force, cmdv, linev, eventv, mdPc, mdlocv, smPc,
                 cmdWritten, everBreach, fbReturned, wroteStop, wroteZero,
                 stopAfter, fbPath, fbResult>>

MainFeedback ==
  \/ FbEnable \/ FbStart \/ FbCheck
  \/ FbOkDir \/ FbOkDuty \/ FbToDir \/ FbToDuty
  \/ FbWDir \/ FbWDuty \/ FbSleep
  \/ FbFinDir \/ FbFinDuty \/ FbStopR \/ FbStopL

MainStep ==
  \/ StartReader \/ StartActuator \/ RepLoop \/ OpenRecord \/ TargetLoop
  \/ CallFeedback \/ MainFeedback \/ FbExit
  \/ SetReadStop \/ SetActuatorStop \/ JoinReader \/ JoinActuator
  \/ DisableR \/ DisableL \/ DisableEn \/ PowerDown \/ CloseChip

\* ------------------------------------------------------------ line writes
\* line.set_value(value): a write is the pair <<line, value>>
LineSet(w) ==
  IF w[1] = "rpwm" THEN rpwm' = w[2] /\ lpwm' = lpwm
                   ELSE lpwm' = w[2] /\ rpwm' = rpwm

\* time.sleep(t) inside a cycle of the given period, as the share of the
\* period it takes, in units of 1/DutyOne
Slept(t, period) == <<"sleep", (t * DutyOne) \div period>>

\* the record of a cycle: it starts again with the first write of a cycle
Logged(trace, entries, first) ==
  IF cycLog THEN (IF first THEN entries ELSE trace \o entries) ELSE trace

\* ------------------------------------------------------------ MotionDriver
\* the locals of a cycle are dead once the cycle is over
MdFresh ==
  /\ mdDuty' = 0 /\ mdDirection' = 0 /\ mdBreach' = FALSE
  /\ mdDutyTag' = Neutral /\ mdDirTag' = Neutral
  /\ high_time' = 0 /\ low_time' = 0

\* lines 174 and 181-184, on locals: the no-motion test, the two intervals
\* and the branch on the direction
MdDecide(duty, direction) ==
  IF NoMotion(duty, direction)
    THEN /\ mdPc' = "a_nm_r"
         /\ UNCHANGED <<high_time, low_time>>
    ELSE /\ high_time' = HighTime(duty)
         /\ low_time' = LowTime(duty)
         /\ mdPc' = IF direction > 0 THEN "a_e_r0" ELSE "a_r_r1"

\* line 158: while not stop_event.is_set()
MdCheckMutant ==
  /\ mdPc = "a_check"
  /\ mdPc' = IF read_stop_event THEN "a_done" ELSE "a_snap_duty"
  /\ UNCHANGED <<devv, sharedv, linev, eventv, mainPc, seqv, framev, exc, mdlocv, smPc, histv>>

MdCheck ==
  /\ mdPc = "a_check"
  /\ mdPc' = IF actuator_stop_event THEN "a_done" ELSE "a_snap_duty"
  /\ UNCHANGED <<devv, sharedv, linev, eventv, mainPc, seqv, framev, exc, mdlocv, smPc, histv>>

MdSnapDutyMutant ==
  /\ mdPc = "a_snap_duty"
  /\ CanAcquire
  /\ lock' = "md"
  /\ mdPc' = "a_snap_dir"
  /\ mdDuty' = current_duty
  /\ mdDutyTag' = dutyTag
  /\ current_duty' = Neutral[1]
  /\ UNCHANGED <<devv, current_force, current_dir, dutyTag, dirTag, linev, eventv, mainPc, seqv, framev, exc,
                 mdDirection, mdBreach, mdDirTag, high_time, low_time, smPc, histv>>

\* lines 159-160: with _state_lock: duty = current_duty
MdSnapDuty ==
  /\ mdPc = "a_snap_duty"
  /\ CanAcquire
  /\ lock' = "md"
  /\ mdPc' = "a_snap_dir"
  /\ mdDuty' = current_duty
  /\ mdDutyTag' = dutyTag
  /\ UNCHANGED <<devv, current_force, cmdv, linev, eventv, mainPc, seqv, framev, exc,
                 mdDirection, mdBreach, mdDirTag, high_time, low_time, smPc, histv>>

\* line 161: direction = current_dir
MdSnapDir ==
  /\ mdPc = "a_snap_dir"
  /\ mdPc' = "a_snap_force"
  /\ mdDirection' = current_dir
  /\ mdDirTag' = dirTag
  /\ UNCHANGED <<devv, sharedv, linev, eventv, mainPc, seqv, framev, exc, mdDuty,
                 mdBreach, mdDutyTag, high_time, low_time, smPc, histv>>

\* lines 162-165: force = current_force, the lock is released, and the
\* safety test on the local; without a breach the cycle goes on to line 174.
\* The record of where the two fields came from ends with the snapshot
MdSnapForceMutant ==
  /\ mdPc = "a_snap_force"
  /\ lock' = "none"
  /\ current_force' = Max(current_force, FORCE_THRESHOLD)
  /\ mdBreach' = Breach(current_force)
  /\ mdDutyTag' = Neutral /\ mdDirTag' = Neutral
  /\ IF Breach(current_force)
       THEN /\ mdPc' = "a_ov_dir"
            /\ UNCHANGED <<high_time, low_time>>
       ELSE MdDecide(mdDuty, mdDirection)
  /\ UNCHANGED <<devv, cmdv, linev, eventv, mainPc, seqv, framev, exc,
                 mdDuty, mdDirection, smPc, histv>>

MdSnapForce ==
  /\ mdPc = "a_snap_force"
  /\ lock' = "none"
  /\ mdBreach' = Breach(current_force)
  /\ mdDutyTag' = Neutral /\ mdDirTag' = Neutral
  /\ IF Breach(current_force)
       THEN /\ mdPc' = "a_ov_dir"
            /\ UNCHANGED <<high_time, low_time>>
       ELSE MdDecide(mdDuty, mdDirection)
  /\ UNCHANGED <<devv, current_force, cmdv, linev, eventv, mainPc, seqv, framev, exc,
                 mdDuty, mdDirection, smPc, histv>>

\* lines 167-168: with _state_lock: current_dir = -1
MdOverrideDirMutant ==
  /\ mdPc = "a_ov_dir"
  /\ lock' = lock
  /\ mdPc' = "a_ov_duty"
  /\ current_dir' = -1
  /\ dirTag' = <<DutyOne, -1>>
  /\ cmdWritten' = TRUE
  /\ UNCHANGED <<devv, current_force, current_duty, dutyTag, linev, eventv, mainPc,
                 seqv, framev, exc, mdlocv, smPc, everBreach, fbReturned,
                 droveInCall, wroteStop, wroteZero, stopAfter, dirStopAtCall,
                 fbPath, fbResult>>

MdOverrideDir ==
  /\ mdPc = "a_ov_dir"
  /\ CanAcquire
  /\ lock' = "md"
  /\ mdPc' = "a_ov_duty"
  /\ current_dir' = -1
  /\ dirTag' = <<DutyOne, -1>>
  /\ cmdWritten' = TRUE
  /\ UNCHANGED <<devv, current_force, current_duty, dutyTag, linev, eventv, mainPc,
                 seqv, framev, exc, mdlocv, smPc, everBreach, fbReturned,
                 droveInCall, wroteStop, wroteZero, stopAfter, dirStopAtCall,
                 fbPath, fbResult>>

\* lines 169-171: current_duty = 1.0, the lock is released; duty = 1.0;
\* direction = -1; the cycle goes on to line 174
MdOverrideDutyMutant ==
  /\ mdPc = "a_ov_duty"
  /\ lock' = lock
  /\ current_duty' = DutyOne
  /\ dutyTag' = <<DutyOne, -1>>
  /\ mdDuty' = OverrideDuty(mdDuty)
  /\ mdDirection' = OverrideDirection(mdDirection)
  /\ MdDecide(OverrideDuty(mdDuty), OverrideDirection(mdDirection))
  /\ UNCHANGED <<devv, current_force, current_dir, dirTag, linev, eventv, mainPc, seqv,
                 framev, exc, mdBreach, mdDutyTag, mdDirTag, smPc, histv>>

MdOverrideDuty ==
  /\ mdPc = "a_ov_duty"
  /\ lock' = "none"
  /\ current_duty' = DutyOne
  /\ dutyTag' = <<DutyOne, -1>>
  /\ mdDuty' = OverrideDuty(mdDuty)
  /\ mdDirection' = OverrideDirection(mdDirection)
  /\ MdDecide(OverrideDuty(mdDuty), OverrideDirection(mdDirection))
  /\ UNCHANGED <<devv, current_force, current_dir, dirTag, linev, eventv, mainPc, seqv,
                 framev, exc, mdBreach, mdDutyTag, mdDirTag, smPc, histv>>

\* one write of a direction line by MotionDriver
MdLine(from, to, w, first) ==
  /\ mdPc = from
  /\ mdPc' = to
  /\ LineSet(w)
  /\ mdTrace' = Logged(mdTrace, <<w>>, first)
  /\ UNCHANGED <<hxv, manv, acquired, rcv, calv, recv, cycLog, manTrace, sharedv, enable,
                 clock, eventv, mainPc, seqv, framev, exc, mdlocv, smPc, histv>>

\* the last write of a cycle, after the sleeps `before` and followed by the
\* cycle's last sleep
MdLastLine(from, before, w, after) ==
  /\ mdPc = from
  /\ mdPc' = "a_check"
  /\ LineSet(w)
  /\ mdTrace' = Logged(mdTrace, before \o <<w>> \o after, FALSE)
  /\ MdFresh
  /\ UNCHANGED <<hxv, manv, acquired, rcv, calv, recv, cycLog, manTrace, sharedv, enable,
                 clock, eventv, mainPc, seqv, framev, exc, smPc, histv>>

\* lines 175-178: no motion
MdNoMotionR == MdLine("a_nm_r", "a_nm_l", <<"rpwm", 0>>, TRUE)
MdNoMotionL ==
  MdLastLine("a_nm_l", <<>>, <<"lpwm", 0>>, <<Slept(NoMotionSleep, PERIOD_US)>>)

\* lines 185-189: extend
MdExtendR0 == MdLine("a_e_r0", "a_e_l1", <<"rpwm", 0>>, TRUE)
MdExtendL1 == MdLine("a_e_l1", "a_e_high", <<"lpwm", 1>>, FALSE)
MdExtendL0Mutant ==
  MdLastLine("a_e_high", <<Slept(high_time, PERIOD_US)>>, <<"lpwm", 1>>,
             <<Slept(low_time, PERIOD_US)>>)
MdExtendL0 ==
  MdLastLine("a_e_high", <<Slept(high_time, PERIOD_US)>>, <<"lpwm", 0>>,
             <<Slept(low_time, PERIOD_US)>>)

\* lines 191-195: retract
MdRetractR1 == MdLine("a_r_r1", "a_r_l0", <<"rpwm", 1>>, TRUE)
MdRetractL0 == MdLine("a_r_l0", "a_r_high", <<"lpwm", 0>>, FALSE)
MdRetractR0 ==
  MdLastLine("a_r_high", <<Slept(high_time, PERIOD_US)>>, <<"rpwm", 0>>,
             <<Slept(low_time, PERIOD_US)>>)

MdStep ==
  \/ MdCheck \/ MdSnapDuty \/ MdSnapDir \/ MdSnapForce
  \/ MdOverrideDir \/ MdOverrideDuty
  \/ MdNoMotionR \/ MdNoMotionL
  \/ MdExtendR0 \/ MdExtendL1 \/ MdExtendL0
  \/ MdRetractR1 \/ MdRetractL0 \/ MdRetractR0

\* ------------------------------------------------------------ ForceSampler
\* line 143: while not stop_event.is_set()
SamplerCheck ==
  /\ smPc = "s_check"
  /\ smPc' = IF read_stop_event THEN "s_done" ELSE "s_read"
  /\ UNCHANGED <<devv, sharedv, linev, eventv, mainPc, seqv, framev, exc, mdPc, mdlocv, histv>>

\* lines 144-147: one reading is taken, calibrated and published (without
\* the lock), then the sampler sleeps
SamplerPublish ==
  /\ smPc = "s_read"
  /\ smPc' = "s_check"
  /\ \E f \in ForceValues :
       /\ current_force' = f
       /\ everBreach' = (everBreach \/ Breach(f))
  /\ UNCHANGED <<devv, cmdv, lock, linev, eventv, mainPc, seqv, framev, exc, mdPc,
                 mdlocv, cmdWritten, fbReturned, droveInCall, wroteStop, wroteZero,
                 stopAfter, dirStopAtCall, fbPath, fbResult>>

SamplerStep == SamplerCheck \/ SamplerPublish

\* ------------------------------------------------------------ HX711 read()
\* The read routine of the sensor, taken alone with its calling loop, in its
\* four variants:
\*   "base"     HX711.read of RPi5_LoadCell_LActuator_csv.py and
\*              Testing/HX711.py (unbounded wait)
\*   "polls"    HX711.read of check_load_cell.py (at most 1000 polls)
\*   "deadline" HX711Fixed.wait_for_ready / read_with_timing of
\*              diagnose_load_cell_doubling.py (ready_timeout seconds)
\*   "debug"    HX711Debug.read_with_debug of debug_hx711.py (max_wait_time)
\* Each data_line.get_value() is an input.  Waits are counted in polls of one
\* millisecond (time.sleep(0.001) per poll).
HxVariants == {"base", "polls", "deadline", "debug"}

\* for _ in range(24)
HX_BITS == 24
\* 1 << 24 and the mask 0x800000
WordMod == 16777216
SignMask == 8388608
\* check_load_cell.py line 30: timeout_count < 1000
READY_POLLS == 1000
\* diagnose_load_cell_doubling.py line 50: ready_timeout = 2.0 s, in ms
READY_TIMEOUT_MS == 2000
\* debug_hx711.py line 48: max_wait_time = 2.0 s, in ms
MAX_WAIT_MS == 2000

\* the words the sensor shifts out in the model: both ends of the positive
\* and of the negative range, and mixed patterns
RawWords == {0, 1, 5592405, 8388607, 8388608, 8388609, 11184810, 16777215}

\* the bound of the ready wait of a bounded variant
ReadyBound(variant) ==
  CASE variant = "polls" -> READY_POLLS
    [] variant = "deadline" -> READY_TIMEOUT_MS
    [] variant = "debug" -> MAX_WAIT_MS
    [] OTHER -> 0

\* the k-th bit the sensor presents (k = 0 first): most significant first
SentBit(word, k) == (word \div (2 ^ (HX_BITS - 1 - k))) % 2

\* value & 0x800000
SignBitSet(value) == (value \div SignMask) % 2 = 1

\* lines 55-57: if value & 0x800000: value |= ~((1 << 24) - 1).  The mask
\* ~((1 << 24) - 1) is -2^24: or-ing it into an integer keeps the low 24
\* bits and sets every higher bit
SignExtendMutant(value) == value
SignExtend(value) ==
  IF SignBitSet(value) THEN (value % WordMod) - WordMod ELSE value

\* check_load_cell.py line 34: if timeout_count >= 1000
PollsExhaustedMutant(count) == count > READY_POLLS
PollsExhausted(count) == count >= READY_POLLS

\* debug_hx711.py line 74: if elapsed_time >= max_wait_time
WaitExpired(el) == el >= MAX_WAIT_MS

\* the end of one iteration of the bit loop: the next data pulse, or the
\* gain/channel pulse after the 24th bit
AfterBitMutant(n) == IF n < HX_BITS THEN "hx_bit_up" ELSE "hx_convert"
AfterBit(n) == IF n < HX_BITS THEN "hx_bit_up" ELSE "hx_gain_up"

\* the sensor routines touch nothing of the control program but the clock line
progv == <<sharedv, rpwm, lpwm, enable, eventv, mainPc, seqv, framev, exc, mdPc,
           mdlocv, smPc, histv, acquired, rcv, calv, recv, cycv>>

\* the data line was read low: value = 0 and the bit loop starts
HxBegin(w) ==
  /\ hxPc' = "hx_bit_up"
  /\ hxWord' = w
  /\ hxValue' = 0 /\ hxBits' = 0 /\ hxCount' = 0
  /\ UNCHANGED <<hxVariant, hxResult, hxOutcome, hxPulses, hxSamples>>

\* lines 41-42: while self.data_line.get_value(): pass
HxWaitBase ==
  /\ hxPc = "hx_wait"
  /\ hxVariant = "base"
  /\ \E b \in {0, 1} :
       IF b = 1
         THEN UNCHANGED hxv
         ELSE /\ hxReady' = TRUE
              /\ \E w \in RawWords : HxBegin(w)
  /\ UNCHANGED <<progv, clock, manv>>

\* check_load_cell.py lines 30-32: while data and timeout_count < 1000:
\* timeout_count += 1; time.sleep(0.001)
HxWaitPolls ==
  /\ hxPc = "hx_wait"
  /\ hxVariant = "polls"
  /\ \E b \in {0, 1} :
       IF b = 1 /\ hxCount < READY_POLLS
         THEN /\ hxCount' = hxCount + 1
              /\ UNCHANGED <<hxPc, hxReady>>
         ELSE /\ hxPc' = "hx_chk"
              /\ hxReady' = (b = 0)
              /\ UNCHANGED hxCount
  /\ UNCHANGED <<progv, clock, manv, hxVariant, hxValue, hxBits, hxResult,
                 hxOutcome, hxWord, hxPulses, hxSamples>>

\* check_load_cell.py lines 34-37: if timeout_count >= 1000: raise Exception
HxCheckPolls ==
  /\ hxPc = "hx_chk"
  /\ hxVariant = "polls"
  /\ IF PollsExhausted(hxCount)
       THEN /\ hxPc' = "hx_exc"
            /\ hxOutcome' = "exception"
            /\ UNCHANGED <<hxVariant, hxValue, hxBits, hxCount, hxResult, hxWord,
                           hxPulses, hxSamples>>
       ELSE \E w \in RawWords : HxBegin(w)
  /\ UNCHANGED <<progv, clock, manv, hxReady>>

\* diagnose_load_cell_doubling.py lines 63-74: while data: if elapsed >=
\* timeout: raise TimeoutError; time.sleep(0.001)
HxWaitDeadline ==
  /\ hxPc = "hx_wait"
  /\ hxVariant = "deadline"
  /\ \E b \in {0, 1} :
       IF b = 0
         THEN /\ hxReady' = TRUE
              /\ \E w \in RawWords : HxBegin(w)
         ELSE IF hxCount >= READY_TIMEOUT_MS
           THEN /\ hxPc' = "hx_exc"
                /\ hxOutcome' = "exception"
                /\ UNCHANGED <<hxVariant, hxValue, hxBits, hxCount, hxResult,
                               hxReady, hxWord, hxPulses, hxSamples>>
           ELSE /\ hxCount' = hxCount + 1
                /\ UNCHANGED <<hxVariant, hxPc, hxValue, hxBits, hxResult,
                               hxOutcome, hxReady, hxWord, hxPulses, hxSamples>>
  /\ UNCHANGED <<progv, clock, manv>>

\* debug_hx711.py lines 65-70: while data and elapsed < max_wait_time:
\* time.sleep(0.001)
HxWaitDebug ==
  /\ hxPc = "hx_wait"
  /\ hxVariant = "debug"
  /\ \E b \in {0, 1} :
       IF b = 1 /\ hxCount < MAX_WAIT_MS
         THEN /\ hxCount' = hxCount + 1
              /\ UNCHANGED <<hxPc, hxReady>>
         ELSE /\ hxPc' = "hx_chk"
              /\ hxReady' = (b = 0)
              /\ UNCHANGED hxCount
  /\ UNCHANGED <<progv, clock, manv, hxVariant, hxValue, hxBits, hxResult,
                 hxOutcome, hxWord, hxPulses, hxSamples>>

\* debug_hx711.py lines 72-84: if elapsed_time >= max_wait_time: return None
HxCheckDebug ==
  /\ hxPc = "hx_chk"
  /\ hxVariant = "debug"
  /\ IF WaitExpired(hxCount)
       THEN /\ hxPc' = "hx_ret"
            /\ hxOutcome' = "none"
            /\ UNCHANGED <<hxVariant, hxValue, hxBits, hxCount, hxResult, hxWord,
                           hxPulses, hxSamples>>
       ELSE \E w \in RawWords : HxBegin(w)
  /\ UNCHANGED <<progv, clock, manv, hxReady>>

\* line 45: self.clock_line.set_value(1), the rising edge of a data pulse
HxClockUp ==
  /\ hxPc = "hx_bit_up"
  /\ clock' = 1
  /\ hxPulses' = hxPulses + 1
  /\ hxPc' = IF hxVariant \in {"base", "polls"} THEN "hx_bit_down" ELSE "hx_bit_sample"
  /\ UNCHANGED <<progv, manv, hxVariant, hxValue, hxBits, hxCount, hxResult,
                 hxOutcome, hxReady, hxWord, hxSamples>>

\* lines 46-47: value = value << 1; self.clock_line.set_value(0).  In the
\* deadline and debug variants the falling edge ends the iteration
HxClockDown ==
  /\ hxPc = "hx_bit_down"
  /\ clock' = 0
  /\ IF hxVariant \in {"base", "polls"}
       THEN /\ hxValue' = hxValue * 2
            /\ hxPc' = "hx_bit_sample"
            /\ UNCHANGED hxBits
       ELSE /\ hxBits' = hxBits + 1
            /\ hxPc' = AfterBit(hxBits + 1)
            /\ UNCHANGED hxValue
  /\ UNCHANGED <<progv, manv, hxVariant, hxCount, hxResult, hxOutcome, hxReady,
                 hxWord, hxPulses, hxSamples>>

\* lines 48-49: if self.data_line.get_value(): value += 1.  In the deadline
\* and debug variants the shift and the sample are taken while the clock is
\* high
HxSample ==
  /\ hxPc = "hx_bit_sample"
  /\ hxSamples' = hxSamples + 1
  /\ LET b == SentBit(hxWord, hxSamples) IN
       IF hxVariant \in {"base", "polls"}
         THEN /\ hxValue' = hxValue + b
              /\ hxBits' = hxBits + 1
              /\ hxPc' = AfterBit(hxBits + 1)
         ELSE /\ hxValue' = hxValue * 2 + b
              /\ hxPc' = "hx_bit_down"
              /\ UNCHANGED hxBits
  /\ UNCHANGED <<progv, clock, manv, hxVariant, hxCount, hxResult, hxOutcome,
                 hxReady, hxWord, hxPulses>>

\* lines 51-52: the 25th pulse
HxGainUp ==
  /\ hxPc = "hx_gain_up"
  /\ hxPc' = "hx_gain_down"
  /\ clock' = 1
  /\ hxPulses' = hxPulses + 1
  /\ UNCHANGED <<progv, manv, hxVariant, hxValue, hxBits, hxCount, hxResult,
                 hxOutcome, hxReady, hxWord, hxSamples>>

HxGainDown ==
  /\ hxPc = "hx_gain_down"
  /\ hxPc' = "hx_convert"
  /\ clock' = 0
  /\ UNCHANGED <<progv, manv, hxVariant, hxValue, hxBits, hxCount, hxResult,
                 hxOutcome, hxReady, hxWord, hxPulses, hxSamples>>

\* lines 55-57: the conversion to a signed integer and the return
HxConvert ==
  /\ hxPc = "hx_convert"
  /\ hxPc' = "hx_ret"
  /\ hxResult' = SignExtend(hxValue)
  /\ hxOutcome' = "sample"
  /\ UNCHANGED <<progv, clock, manv, hxVariant, hxValue, hxBits, hxCount, hxReady,
                 hxWord, hxPulses, hxSamples>>

\* a new call starts with fresh locals
HxFresh ==
  /\ hxPc' = "hx_wait"
  /\ hxValue' = 0 /\ hxBits' = 0 /\ hxCount' = 0
  /\ hxResult' = 0 /\ hxOutcome' = "pending"
  /\ hxReady' = FALSE /\ hxWord' = 0 /\ hxPulses' = 0 /\ hxSamples' = 0
  /\ UNCHANGED hxVariant

\* the calling loop goes round: line 143-144 of read_force_continuous,
\* check_load_cell.py lines 84-87 and 113, debug_hx711.py lines 170-171
HxCallAgain ==
  /\ hxPc = "hx_ret"
  /\ HxFresh
  /\ UNCHANGED <<progv, clock, manv>>

\* check_load_cell.py lines 98-103 (diagnose_load_cell_doubling.py lines
\* 225-229): except: hx.power_down()
HxPowerDown ==
  /\ hxPc = "hx_exc"
  /\ hxPc' = "hx_pu"
  /\ clock' = 1
  /\ UNCHANGED <<progv, manv, hxVariant, hxValue, hxBits, hxCount, hxResult,
                 hxOutcome, hxReady, hxWord, hxPulses, hxSamples>>

\* check_load_cell.py lines 105-113: hx.power_up(), the sleeps, and the
\* loop retries the read
HxPowerUp ==
  /\ hxPc = "hx_pu"
  /\ clock' = 0
  /\ HxFresh
  /\ UNCHANGED <<progv, manv>>

HxRead ==
  \/ HxWaitBase \/ HxWaitPolls \/ HxCheckPolls \/ HxWaitDeadline
  \/ HxWaitDebug \/ HxCheckDebug
  \/ HxClockUp \/ HxClockDown \/ HxSample \/ HxGainUp \/ HxGainDown \/ HxConvert

HxLoop == HxCallAgain \/ HxPowerDown \/ HxPowerUp

\* ------------------------------------------------------ recovery loop
\* The reading loops of check_load_cell.py (lines 83-113) and of
\* diagnose_load_cell_doubling.py (lines 194-240) with their power cycle
\* after a failed read.  A read is one step here (its inside is above);
\* times are in ms, and the 60 microseconds of power_down() and power_up()
\* count as 0.
RcScripts == {"check", "diagnose"}

\* the conversion period of the sensor: check_load_cell.py line 54
CONVERSION_PERIOD_MS == 100
\* check_load_cell.py line 104 (diagnose_load_cell_doubling.py line 230)
RC_DOWN_MS == 100
\* check_load_cell.py line 106 (diagnose_load_cell_doubling.py line 232)
RC_SETTLE_MS == 200
\* check_load_cell.py line 109 (diagnose_load_cell_doubling.py lines 235, 240)
RC_RETRY_MS == 500
\* check_load_cell.py line 113
RC_DISPLAY_MS == 50
\* the time a failed read has waited: check_load_cell.py lines 30-35,
\* diagnose_load_cell_doubling.py lines 63-67
ReadWait(script) == IF script = "check" THEN READY_POLLS ELSE READY_TIMEOUT_MS

\* from where the times since wake-up are no longer told apart
WakeCap == 1000
\* how many power cycles one run of the model makes
RcMaxCycles == 2

After(t, d) == Min(t + d, WakeCap)

rcframev == <<sharedv, rpwm, lpwm, enable, eventv, mainPc, seqv, framev, exc, mdPc,
              mdlocv, smPc, histv, acquired, calv, recv, cycv, hxv, manv>>

\* check_load_cell.py lines 86-87 and 26-56: hx.read() returns a sample after
\* its sleep of line 54, and the loop goes on to the sleep of line 113;
\* diagnose_load_cell_doubling.py lines 196-223: read_with_timing() returns
\* and line 223 raises NameError (no 'self' in main), handled at line 238
RcReadOk ==
  /\ rcPc = "rc_read"
  /\ clock = 0
  /\ rcReadAt' = sinceWake
  /\ sinceWake' = After(sinceWake, IF rcScript = "check" THEN CONVERSION_PERIOD_MS ELSE 0)
  /\ rcPc' = IF rcScript = "check" THEN "rc_tail" ELSE "rc_err"
  /\ UNCHANGED <<rcframev, clock, rcScript, rcWoke, rcCycles>>

\* the read gives up its wait for the data line and raises: the handler of
\* check_load_cell.py line 98 (diagnose_load_cell_doubling.py line 225)
RcReadFails ==
  /\ rcPc = "rc_read"
  /\ rcCycles < RcMaxCycles
  /\ rcReadAt' = sinceWake
  /\ sinceWake' = After(sinceWake, ReadWait(rcScript))
  /\ rcPc' = "rc_pd"
  /\ UNCHANGED <<rcframev, clock, rcScript, rcWoke, rcCycles>>

\* check_load_cell.py lines 103 and 58-61: hx.power_down()
RcPowerDown ==
  /\ rcPc = "rc_pd"
  /\ clock' = 1
  /\ rcWoke' = FALSE
  /\ rcPc' = "rc_s1"
  /\ UNCHANGED <<rcframev, rcScript, sinceWake, rcReadAt, rcCycles>>

\* check_load_cell.py line 104: time.sleep(0.1)
RcSleepDown ==
  /\ rcPc = "rc_s1"
  /\ sinceWake' = After(sinceWake, RC_DOWN_MS)
  /\ rcPc' = "rc_pu"
  /\ UNCHANGED <<rcframev, clock, rcScript, rcWoke, rcReadAt, rcCycles>>

\* check_load_cell.py lines 105 and 63-66: hx.power_up()
RcPowerUp ==
  /\ rcPc = "rc_pu"
  /\ clock' = 0
  /\ rcWoke' = TRUE
  /\ sinceWake' = 0
  /\ rcCycles' = rcCycles + 1
  /\ rcPc' = "rc_s2"
  /\ UNCHANGED <<rcframev, rcScript, rcReadAt>>

\* check_load_cell.py line 106: time.sleep(0.2)
RcSettle ==
  /\ rcPc = "rc_s2"
  /\ sinceWake' = After(sinceWake, RC_SETTLE_MS)
  /\ rcPc' = "rc_s3"
  /\ UNCHANGED <<rcframev, clock, rcScript, rcWoke, rcReadAt, rcCycles>>

\* check_load_cell.py lines 107-108 (diagnose_load_cell_doubling.py lines
\* 233-234): an exception raised inside the power cycle, KeyboardInterrupt
\* included, is swallowed by the bare except and the rest of the cycle is
\* skipped
RcSwallowMutant ==
  /\ rcPc \in {"rc_pd", "rc_s1", "rc_pu", "rc_s2"}
  /\ rcPc' = "rc_read"
  /\ UNCHANGED <<rcframev, clock, rcScript, rcWoke, sinceWake, rcReadAt, rcCycles>>

RcSwallow ==
  /\ rcPc \in {"rc_pd", "rc_s1", "rc_pu", "rc_s2"}
  /\ rcPc' = "rc_s3"
  /\ UNCHANGED <<rcframev, clock, rcScript, rcWoke, sinceWake, rcReadAt, rcCycles>>

\* check_load_cell.py line 109: time.sleep(0.5), then the sleep of line 113;
\* diagnose_load_cell_doubling.py line 235, then the loop test of line 194,
\* which ends the loop after test_duration
RcRetry ==
  /\ rcPc = "rc_s3"
  /\ sinceWake' = After(sinceWake, RC_RETRY_MS)
  /\ rcPc' \in (IF rcScript = "check" THEN {"rc_tail"} ELSE {"rc_read", "rc_fin"})
  /\ UNCHANGED <<rcframev, clock, rcScript, rcWoke, rcReadAt, rcCycles>>

\* diagnose_load_cell_doubling.py lines 238-240: time.sleep(0.5), then the
\* loop test of line 194
RcError ==
  /\ rcPc = "rc_err"
  /\ sinceWake' = After(sinceWake, RC_RETRY_MS)
  /\ rcPc' \in {"rc_read", "rc_fin"}
  /\ UNCHANGED <<rcframev, clock, rcScript, rcWoke, rcReadAt, rcCycles>>

\* check_load_cell.py line 113: time.sleep(0.05), and the loop of line 84
\* starts the next read
RcTail ==
  /\ rcPc = "rc_tail"
  /\ sinceWake' = After(sinceWake, RC_DISPLAY_MS)
  /\ rcPc' = "rc_read"
  /\ UNCHANGED <<rcframev, clock, rcScript, rcWoke, rcReadAt, rcCycles>>

\* KeyboardInterrupt outside the power cycle: check_load_cell.py line 115
\* (diagnose_load_cell_doubling.py line 242), then the finally block
RcInterrupt ==
  /\ rcPc \in {"rc_read", "rc_s3", "rc_err", "rc_tail"}
  /\ rcPc' = "rc_fin"
  /\ UNCHANGED <<rcframev, clock, rcScript, rcWoke, sinceWake, rcReadAt, rcCycles>>

\* check_load_cell.py lines 118-120 (diagnose_load_cell_doubling.py lines
\* 273-275): hx.power_down(), chip.close()
RcFinal ==
  /\ rcPc = "rc_fin"
  /\ clock' = 1
  /\ rcWoke' = FALSE
  /\ rcPc' = "rc_done"
  /\ UNCHANGED <<rcframev, rcScript, sinceWake, rcReadAt, rcCycles>>

RcStep ==
  \/ RcReadOk \/ RcReadFails \/ RcPowerDown \/ RcSleepDown \/ RcPowerUp \/ RcSettle
  \/ RcSwallow \/ RcRetry \/ RcError \/ RcTail \/ RcInterrupt \/ RcFinal

\* ------------------------------------------------- sampling loop with reads
\* The loop of read_force_continuous (lines 143-147), of check_load_cell.py
\* (lines 84-113) and of Testing/HX711.py (lines 96-105), each with the
\* calibration constants of its script.  A force is a Python float, the
\* correctly rounded quotient of two exactly represented numbers; here it is
\* a fixed-point number of ForceUnit units per pound (per gram in
\* Testing/HX711.py), the quotient rounded to the nearest unit.
CalScripts == {"main", "check", "testing"}

\* lines 15-16 (check_load_cell.py lines 10-11)
GRAM_CONVERSION == 75000
INITIAL_OFFSET == 25000
\* Testing/HX711.py lines 79-80
TESTING_GRAM_CONVERSION == 1100
TESTING_INITIAL_OFFSET == -7950
\* line 146: a force is shown with two decimals
ForceUnit == 100

\* the arguments samples and mechanical_noise_factor of the loop (line 140:
\* both default to 1, and line 266 passes neither)
SampleCounts == {1, 2}
NoiseFactors == {1, 2}

ScaleOf(script) == IF script = "testing" THEN TESTING_GRAM_CONVERSION ELSE GRAM_CONVERSION
OffsetOf(script) == IF script = "testing" THEN TESTING_INITIAL_OFFSET ELSE INITIAL_OFFSET

\* the quotient n / d, d > 0, rounded to the nearest integer
RoundDivMutant(n, d) == n \div d
RoundDiv(n, d) == IF 2 * (n % d) >= d THEN (n \div d) + 1 ELSE n \div d

\* sum(hx.read() for _ in range(samples))
RECURSIVE SeqSum(_)
SeqSum(q) == IF q = <<>> THEN 0 ELSE Head(q) + SeqSum(Tail(q))

\* lines 144-145: reading = sum / samples;
\* (reading - INITIAL_OFFSET) / (GRAM_CONVERSION * mechanical_noise_factor)
Calibrate(script, sum, samples, noise) ==
  RoundDiv((sum - samples * OffsetOf(script)) * ForceUnit,
           ScaleOf(script) * noise * samples)

\* the raw value a force stands for: force * scale + offset
Uncalibrate(script, force) ==
  RoundDiv(force * ScaleOf(script), ForceUnit) + OffsetOf(script)

\* the loop test: line 143 (stop_event), check_load_cell.py line 84 (while
\* True), Testing/HX711.py line 96 (60 seconds have passed or not)
CalCheck ==
  /\ smPc = "c_check"
  /\ \/ /\ CASE calScript = "main" -> ~read_stop_event
              [] calScript = "check" -> TRUE
              [] OTHER -> TRUE
        /\ smPc' = "c_read"
        /\ calReadings' = <<>>
     \/ /\ CASE calScript = "main" -> read_stop_event
              [] calScript = "check" -> FALSE
              [] OTHER -> TRUE
        /\ smPc' = "s_done"
        /\ calReadings' = calReadings
  /\ UNCHANGED <<hxv, manv, acquired, rcv, recv, cycv, calScript, calSamples, calNoise, calReady,
                 sharedv, linev, eventv, mainPc, seqv, framev, exc, mdPc, mdlocv, histv>>

\* line 144 with lines 41-57: one hx.read(); it leaves its wait loop only
\* when the data line is low, then shifts the word in and returns it
\* sign-extended; the sensor raises the data line until its next conversion
CalRead ==
  /\ smPc = "c_read"
  /\ Len(calReadings) < calSamples
  /\ calReady
  /\ calReady' = FALSE
  /\ \E w \in RawWords :
       calReadings' = Append(calReadings, SignExtend(w))
  /\ smPc' = IF Len(calReadings) + 1 = calSamples THEN "c_publish" ELSE "c_read"
  /\ UNCHANGED <<hxv, manv, acquired, rcv, recv, cycv, calScript, calSamples, calNoise,
                 sharedv, linev, eventv, mainPc, seqv, framev, exc, mdPc, mdlocv, histv>>

\* lines 145-147: the force is computed and stored, then the loop sleeps
CalPublish ==
  /\ smPc = "c_publish"
  /\ current_force' = Calibrate(calScript, SeqSum(calReadings), calSamples, calNoise)
  /\ smPc' = "c_check"
  /\ UNCHANGED <<devv, cmdv, lock, linev, eventv, mainPc, seqv, framev, exc, mdPc,
                 mdlocv, histv>>

\* the sensor: a conversion completes and the data line goes low
SensorConvert ==
  /\ ~calReady
  /\ calReady' = TRUE
  /\ UNCHANGED <<hxv, manv, acquired, rcv, recv, cycv, calScript, calSamples, calNoise, calReadings,
                 sharedv, linev, eventv, mainPc, seqv, framev, exc, mdPc, mdlocv, smPc,
                 histv>>

CalStep == CalCheck \/ CalRead \/ CalPublish

\* ------------------------------------------------------ repetition record
\* One repetition of the main block (lines 276-310) with its record file
\* and its logger thread, beside the ForceSampler.  The call of the
\* feedback routine at line 306 is one step here: what it does is the
\* subject of the main-thread actions above.
recframev == <<hxv, manv, acquired, rcv, calv, cycv, cmdv, linev, eventv, Kp, max_seconds,
               target_force, framev, exc, mdPc, mdlocv, histv>>

\* line 276: for rep in range(1, REPETITIONS + 1)
RecRepLoop ==
  /\ mainPc = "r_rep"
  /\ mainPc' = IF rep <= RecReps THEN "r_open" ELSE "r_end"
  /\ UNCHANGED <<recframev, recv, current_force, lock, rep, tgtIdx, smPc>>

\* lines 280-296: the record file is opened, the stop signal of the logger
\* is created and the target holder is [None]
RecOpen ==
  /\ mainPc = "r_open"
  /\ mainPc' = "r_start"
  /\ fileOpen' = TRUE
  /\ log_stop_event' = FALSE
  /\ target_holder' = <<>>
  /\ UNCHANGED <<recframev, logPc, logF, lastRow, current_force, lock, rep, tgtIdx, smPc>>

\* lines 297-298: logger_thread.start()
RecStartLogger ==
  /\ mainPc = "r_start"
  /\ mainPc' = "r_tgt"
  /\ logPc' = "l_check"
  /\ UNCHANGED <<recframev, logF, log_stop_event, target_holder, fileOpen, lastRow,
                 current_force, lock, rep, tgtIdx, smPc>>

\* line 303: for tgt in TARGET_FORCES
RecTargetLoop ==
  /\ mainPc = "r_tgt"
  /\ IF tgtIdx < NumTargets
       THEN /\ tgtIdx' = tgtIdx + 1
            /\ mainPc' = "r_set"
       ELSE /\ tgtIdx' = tgtIdx
            /\ mainPc' = "r_stop"
  /\ UNCHANGED <<recframev, recv, current_force, lock, rep, smPc>>

\* line 304: target_holder[0] = tgt
RecSetTarget ==
  /\ mainPc = "r_set"
  /\ mainPc' = "r_call"
  /\ target_holder' = <<TARGET_FORCES[tgtIdx]>>
  /\ UNCHANGED <<recframev, logPc, logF, log_stop_event, fileOpen, lastRow,
                 current_force, lock, rep, tgtIdx, smPc>>

\* line 306: feedback_extend_to_target(actuator, tgt) runs and returns
RecCall ==
  /\ mainPc = "r_call"
  /\ mainPc' = "r_tgt"
  /\ UNCHANGED <<recframev, recv, current_force, lock, rep, tgtIdx, smPc>>

\* line 309: log_stop_event.set()
RecStopLogger ==
  /\ mainPc = "r_stop"
  /\ mainPc' = "r_join"
  /\ log_stop_event' = TRUE
  /\ UNCHANGED <<recframev, logPc, logF, target_holder, fileOpen, lastRow,
                 current_force, lock, rep, tgtIdx, smPc>>

RecJoinMutant ==
  /\ mainPc = "r_join"
  /\ logPc \in {"l_check", "l_done"}
  /\ mainPc' = "r_close"
  /\ UNCHANGED <<recframev, recv, current_force, lock, rep, tgtIdx, smPc>>

\* line 310: logger_thread.join()
RecJoin ==
  /\ mainPc = "r_join"
  /\ logPc = "l_done"
  /\ mainPc' = "r_close"
  /\ UNCHANGED <<recframev, recv, current_force, lock, rep, tgtIdx, smPc>>

\* the end of the with block of line 280: the file is closed, and the loop
\* of line 276 goes to its next repetition
RecClose ==
  /\ mainPc = "r_close"
  /\ mainPc' = "r_rep"
  /\ fileOpen' = FALSE
  /\ rep' = rep + 1
  /\ tgtIdx' = 0
  /\ logPc' = "l_idle"
  /\ UNCHANGED <<recframev, logF, log_stop_event, target_holder, lastRow,
                 current_force, lock, smPc>>

\* line 288: while not log_stop_event.is_set()
LogCheck ==
  /\ logPc = "l_check"
  /\ logPc' = IF log_stop_event THEN "l_done" ELSE "l_lock"
  /\ UNCHANGED <<recframev, logF, log_stop_event, target_holder, fileOpen, lastRow,
                 current_force, lock, mainPc, rep, tgtIdx, smPc>>

\* line 290: with _state_lock (the lock is taken)
LogLock ==
  /\ logPc = "l_lock"
  /\ CanAcquire
  /\ lock' = "logger"
  /\ logPc' = "l_read"
  /\ UNCHANGED <<recframev, logF, log_stop_event, target_holder, fileOpen, lastRow,
                 current_force, mainPc, rep, tgtIdx, smPc>>

\* line 291: f = current_force, and the lock is released
LogRead ==
  /\ logPc = "l_read"
  /\ logF' = current_force
  /\ lock' = "none"
  /\ logPc' = "l_row"
  /\ UNCHANGED <<recframev, log_stop_event, target_holder, fileOpen, lastRow,
                 current_force, mainPc, rep, tgtIdx, smPc>>

\* lines 292-294: the row (f, current target) is written, then the logger
\* sleeps; writerow on a closed file raises ValueError, which ends the thread
LogRow ==
  /\ logPc = "l_row"
  /\ IF fileOpen
       THEN /\ lastRow' = <<logF, target_holder>>
            /\ logPc' = "l_check"
       ELSE /\ lastRow' = lastRow
            /\ logPc' = "l_raised"
  /\ logF' = 0
  /\ UNCHANGED <<recframev, log_stop_event, target_holder, fileOpen,
                 current_force, lock, mainPc, rep, tgtIdx, smPc>>

\* positions of the main thread inside the with block of line 280
RecWithPcs == {"r_start", "r_tgt", "r_set", "r_call", "r_stop", "r_join", "r_close"}

\* KeyboardInterrupt raised in the main thread inside the with block of
\* line 280 (inside a feedback call, line 306, or at any other statement of
\* the block): the with statement closes the file as the exception leaves
\* it, lines 309-316 are skipped and the handler of line 318 is reached
RecInterrupt ==
  /\ mainPc \in RecWithPcs
  /\ exc = "none"
  /\ exc' = "KeyboardInterrupt"
  /\ mainPc' = "h_dis_r"
  /\ fileOpen' = FALSE
  /\ UNCHANGED <<hxv, manv, acquired, rcv, calv, cycv, cmdv, linev, eventv, Kp, max_seconds,
                 target_force, framev, mdPc, mdlocv, histv,
                 logPc, logF, log_stop_event, target_holder, lastRow,
                 current_force, lock, rep, tgtIdx, smPc>>

RecMain ==
  \/ RecRepLoop \/ RecOpen \/ RecStartLogger \/ RecTargetLoop \/ RecSetTarget
  \/ RecCall \/ RecStopLogger \/ RecJoin \/ RecClose
  \/ RecInterrupt
  \/ DisableR \/ DisableL \/ DisableEn \/ PowerDown \/ CloseChip

LogStep == LogCheck \/ LogLock \/ LogRead \/ LogRow

\* ------------------------------------------------------------ actuator driver
\* The routines of the actuator driver taken alone, called one after the
\* other by one thread: enable_motor, disable_motor, stop, and the manual
\* drive routines
\*   "pwm_control_extend", "pwm_control_retract"   (LinearActuator)
\*   "software_pwm_rpwm", "software_pwm_lpwm"      (software_pwm of
\*       Testing/actuator_speed_control.py with pin_high = rpwm, = lpwm)
\* Duties are in units of 1/DutyOne, intervals in microseconds, durations in
\* milliseconds.
ManRoutines == {"pwm_control_extend", "pwm_control_retract",
                "software_pwm_rpwm", "software_pwm_lpwm"}

\* frequency = 100
MAN_FREQUENCY == 100
\* period = 1.0 / frequency, in microseconds
MAN_PERIOD_US == 10000

\* duty arguments: -0.5, 0, 0.25, 0.5, 1.0, 1.5
ManDuties == {-10000, 0, 5000, 10000, DutyOne, 30000}
\* duration arguments in milliseconds: 0, 0.005 s, 0.01 s, 0.025 s
ManDurations == {0, 5, 10, 25}

\* line 104: high_time = period * duty_cycle
ManHighTimeMutant(duty) == (MAN_PERIOD_US * duty) \div (2 * DutyOne)
ManHighTime(duty) == (MAN_PERIOD_US * duty) \div DutyOne

\* line 105: low_time = period - high_time
ManLowTime(duty) == MAN_PERIOD_US - ManHighTime(duty)

\* line 106: cycles = int(duration * frequency)
ManCycleCount(durationMs) == (durationMs * MAN_FREQUENCY) \div 1000

\* time.sleep(t) raises ValueError for a negative t
SleepRaises(t) == t < 0

\* the line a routine drives, as <<rpwm, lpwm>> of the high interval
ManHighLines(routine) ==
  IF routine \in {"pwm_control_retract", "software_pwm_rpwm"} THEN <<1, 0>> ELSE <<0, 1>>

\* lines 110 and 125 (actuator_speed_control.py line 41)
ManFirstWrite(routine) ==
  CASE routine = "pwm_control_extend" -> <<"rpwm", 0>>
    [] routine = "pwm_control_retract" -> <<"rpwm", 1>>
    [] routine = "software_pwm_rpwm" -> <<"rpwm", 1>>
    [] OTHER -> <<"lpwm", 1>>

\* lines 111 and 126 (actuator_speed_control.py line 42)
ManSecondWrite(routine) ==
  CASE routine = "pwm_control_extend" -> <<"lpwm", 1>>
    [] routine = "pwm_control_retract" -> <<"lpwm", 0>>
    [] routine = "software_pwm_rpwm" -> <<"lpwm", 0>>
    [] OTHER -> <<"rpwm", 0>>

\* lines 113 and 128 (actuator_speed_control.py line 46)
ManThirdWriteMutant(routine) ==
  IF ManHighLines(routine) = <<1, 0>> THEN <<"lpwm", 0>> ELSE <<"rpwm", 0>>
ManThirdWrite(routine) ==
  IF ManHighLines(routine) = <<1, 0>> THEN <<"rpwm", 0>> ELSE <<"lpwm", 0>>

\* actuator_speed_control.py line 47
ManFourthWrite(routine) ==
  IF routine = "software_pwm_rpwm" THEN <<"lpwm", 0>> ELSE <<"rpwm", 0>>

\* positions inside a manual drive routine
ManPcs == {"p_loop", "p_w1", "p_w2", "p_high", "p_w3", "p_w4", "p_low"}

\* what the driver routines leave alone: everything of the control program
\* but the position of the calling thread and the three lines
actbasev == <<sharedv, clock, eventv, seqv, framev, exc, mdPc, mdlocv, smPc, histv, hxv,
              acquired, rcv, calv, recv, cycLog, mdTrace>>
actframev == <<actbasev, manTrace>>

\* line 85: self.enable.set_value(1)
ActEnable ==
  /\ mainPc = "op_idle"
  /\ enable' = 1
  /\ UNCHANGED <<actframev, mainPc, rpwm, lpwm, manv>>

\* a call of disable_motor(), lines 88-90
ActCallDisable ==
  /\ mainPc = "op_idle"
  /\ mainPc' = "h_dis_r"
  /\ UNCHANGED <<actframev, rpwm, lpwm, enable, manv>>

\* a call of stop(), lines 95-97
ActCallStop ==
  /\ mainPc = "op_idle"
  /\ mainPc' = "fb_stop_r"
  /\ UNCHANGED <<actframev, rpwm, lpwm, enable, manv>>

\* a call of a manual drive routine, lines 101-108 (116-123;
\* actuator_speed_control.py lines 23-37)
ActCallPwm ==
  /\ mainPc = "op_idle"
  /\ mainPc' = "p_loop"
  /\ \E r \in ManRoutines, d \in ManDuties, t \in ManDurations :
       /\ manRoutine' = r
       /\ manDuty' = d
       /\ manHigh' = ManHighTime(d)
       /\ manLow' = ManLowTime(d)
       /\ manCycles' = ManCycleCount(t)
  /\ manI' = 0
  /\ manRan' = 0
  /\ manHighSum' = 0
  /\ UNCHANGED <<actframev, rpwm, lpwm, enable>>

\* line 109: for _ in range(cycles); the routine returns after the last cycle
ManLoop ==
  /\ mainPc = "p_loop"
  /\ mainPc' = IF manI < manCycles THEN "p_w1" ELSE "p_ret"
  /\ UNCHANGED <<actframev, rpwm, lpwm, enable, manv>>

\* line 110 (125; actuator_speed_control.py line 41): the first write of a cycle
ManWrite1 ==
  /\ mainPc = "p_w1"
  /\ mainPc' = "p_w2"
  /\ LineSet(ManFirstWrite(manRoutine))
  /\ manTrace' = Logged(manTrace, <<ManFirstWrite(manRoutine)>>, TRUE)
  /\ UNCHANGED <<actbasev, enable, manv>>

\* line 111 (126; actuator_speed_control.py line 42): the second write
ManWrite2 ==
  /\ mainPc = "p_w2"
  /\ mainPc' = "p_high"
  /\ LineSet(ManSecondWrite(manRoutine))
  /\ manTrace' = Logged(manTrace, <<ManSecondWrite(manRoutine)>>, FALSE)
  /\ UNCHANGED <<actbasev, enable, manv>>

\* line 112 (127; 43): time.sleep(high_time); manHighSum is the high time
\* commanded so far in this call
ManSleepHigh ==
  /\ mainPc = "p_high"
  /\ IF SleepRaises(manHigh)
       THEN /\ mainPc' = "p_raised"
            /\ UNCHANGED <<manHighSum, manTrace>>
       ELSE /\ mainPc' = "p_w3"
            /\ manHighSum' = manHighSum + manHigh
            /\ manTrace' = Logged(manTrace, <<Slept(manHigh, MAN_PERIOD_US)>>, FALSE)
  /\ UNCHANGED <<actbasev, rpwm, lpwm, enable, manRoutine, manDuty, manCycles,
                 manI, manHigh, manLow, manRan>>

\* line 113 (128; 46): the driven line goes low
ManWrite3 ==
  /\ mainPc = "p_w3"
  /\ mainPc' = IF manRoutine \in {"software_pwm_rpwm", "software_pwm_lpwm"}
                 THEN "p_w4" ELSE "p_low"
  /\ LineSet(ManThirdWrite(manRoutine))
  /\ manTrace' = Logged(manTrace, <<ManThirdWrite(manRoutine)>>, FALSE)
  /\ UNCHANGED <<actbasev, enable, manv>>

\* actuator_speed_control.py line 47: pin_low.set_value(0)
ManWrite4 ==
  /\ mainPc = "p_w4"
  /\ mainPc' = "p_low"
  /\ LineSet(ManFourthWrite(manRoutine))
  /\ manTrace' = Logged(manTrace, <<ManFourthWrite(manRoutine)>>, FALSE)
  /\ UNCHANGED <<actbasev, enable, manv>>

\* line 114 (129; 48): time.sleep(low_time), the end of one cycle
ManSleepLow ==
  /\ mainPc = "p_low"
  /\ IF SleepRaises(manLow)
       THEN /\ mainPc' = "p_raised"
            /\ UNCHANGED <<manI, manRan, manTrace>>
       ELSE /\ mainPc' = "p_loop"
            /\ manI' = manI + 1
            /\ manRan' = manRan + 1
            /\ manTrace' = Logged(manTrace, <<Slept(manLow, MAN_PERIOD_US)>>, FALSE)
  /\ UNCHANGED <<actbasev, rpwm, lpwm, enable, manRoutine, manDuty, manCycles,
                 manHigh, manLow, manHighSum>>

\* KeyboardInterrupt inside a manual drive routine: the caller's handler
\* disables the driver (main script lines 318-320; the finally block of
\* actuator_speed_control.py lines 72-77)
ManInterrupt ==
  /\ mainPc \in ManPcs
  /\ mainPc' = "h_dis_r"
  /\ UNCHANGED <<actframev, rpwm, lpwm, enable, manv>>

\* a routine is over (returned, or left by its exception) and its caller
\* goes on to its next call
ActReturn ==
  /\ mainPc \in {"fin_pd", "fb_exit", "p_ret", "p_raised"}
  /\ mainPc' = "op_idle"
  /\ manRoutine' = "none" /\ manDuty' = 0 /\ manCycles' = 0 /\ manI' = 0
  /\ manHigh' = 0 /\ manLow' = 0 /\ manRan' = 0 /\ manHighSum' = 0
  /\ UNCHANGED <<actframev, rpwm, lpwm, enable>>

ManStep ==
  \/ ManLoop \/ ManWrite1 \/ ManWrite2 \/ ManSleepHigh \/ ManWrite3 \/ ManWrite4
  \/ ManSleepLow

\* ------------------------------------------------------------ specifications
Next == MainStep \/ InterruptInTry \/ InterruptOutside \/ MdStep \/ SamplerStep

Spec == Init /\ [][Next]_vars

\* the MotionDriver thread keeps being scheduled
FairDriverSpec == Spec /\ WF_vars(MdStep)

\* the whole script from the first statement of the main block, line 254
StartupInit ==
  /\ InitRest
  /\ HxIdle /\ ManIdle
  /\ InitCommand
  /\ acquired = 0 /\ CalIdle /\ RecIdle /\ RcIdle /\ CycIdle
  /\ mdPc = "a_idle"
  /\ smPc = "s_idle"
  /\ current_force = 0
  /\ mainPc = "m_acquire"
  /\ target_force = 0
  /\ Kp = KP_DEFAULT
  /\ max_seconds = MaxDurationMs

StartupNext == AcquireLine \/ Next

StartupSpec == StartupInit /\ [][StartupNext]_vars

\* one call of the feedback routine with both background threads running:
\* the state at the entry of a call, with the command the first call finds
\* (the initial one), the one a later call finds (neutral) or an override,
\* for each setpoint and each force published so far
CallCommands == {<<InitialDuty, InitialDir>>, Neutral, <<DutyOne, -1>>}

CallInit ==
  /\ InitRest /\ LinesHeld /\ CalIdle /\ RecIdle /\ RcIdle /\ CycIdle
  /\ HxIdle /\ ManIdle
  /\ \E c \in CallCommands :
       /\ current_duty = c[1] /\ current_dir = c[2]
       /\ dutyTag = c /\ dirTag = c
  /\ mdPc = "a_check"
  /\ smPc = "s_check"
  /\ current_force \in ForceValues \cup {0}
  /\ mainPc = "fb_enable"
  /\ target_force \in {TARGET_FORCES[i] : i \in 1..NumTargets}
  /\ Kp = KP_DEFAULT
  /\ max_seconds = MaxDurationMs

CallNext == MainFeedback \/ InterruptInTry \/ InterruptOutside \/ MdStep \/ SamplerStep

\* the threads are scheduled fairly and a thread that waits for the lock
\* gets it in the end (MotionDriver holds it for three assignments per
\* cycle and then sleeps a period); the interrupt is the environment's
FairCallSpec ==
  /\ CallInit /\ [][CallNext]_vars
  /\ SF_vars(MainFeedback) /\ WF_vars(MdStep) /\ WF_vars(SamplerStep)

\* the feedback routine taken alone, for every gain, target, duration and
\* (frozen) force
LawDurations == {0, 10, MaxDurationMs}

LawInit ==
  /\ InitRest /\ LinesHeld /\ CalIdle /\ RecIdle /\ RcIdle /\ CycIdle
  /\ HxIdle /\ ManIdle
  /\ InitCommand
  /\ mdPc = "a_idle"
  /\ smPc = "s_idle"
  /\ current_force \in LawForces
  /\ mainPc = "fb_enable"
  /\ target_force \in LawTargets
  /\ Kp \in KpValues
  /\ max_seconds \in LawDurations

LawNext == MainFeedback

LawSpec == LawInit /\ [][LawNext]_vars

\* the sensor script taken alone: the lines as requested, the first read()
\* about to start, for each variant of the routine
SensorInit ==
  /\ InitRest /\ LinesHeld /\ CalIdle /\ RecIdle /\ RcIdle /\ CycIdle
  /\ InitCommand
  /\ ManIdle
  /\ mdPc = "a_idle"
  /\ smPc = "s_idle"
  /\ current_force = 0
  /\ mainPc = "m_start_reader"
  /\ target_force = 0
  /\ Kp = KP_DEFAULT
  /\ max_seconds = MaxDurationMs
  /\ hxVariant \in HxVariants
  /\ hxPc = "hx_wait"
  /\ hxValue = 0 /\ hxBits = 0 /\ hxCount = 0
  /\ hxResult = 0 /\ hxOutcome = "pending"
  /\ hxReady = FALSE /\ hxWord = 0 /\ hxPulses = 0 /\ hxSamples = 0

SensorNext == HxRead \/ HxLoop

SensorSpec == SensorInit /\ [][SensorNext]_vars

\* the sampling loop keeps running
FairSensorSpec == SensorSpec /\ WF_vars(SensorNext)

\* the driver object after construction (all lines low), with any command
\* and any force in the shared state, and one thread calling its routines
ActuatorInit ==
  /\ InitRest /\ LinesHeld /\ CalIdle /\ RecIdle /\ RcIdle /\ CycIdle
  /\ HxIdle /\ ManIdle
  /\ \E c \in CallCommands :
       /\ current_duty = c[1] /\ current_dir = c[2]
       /\ dutyTag = c /\ dirTag = c
  /\ mdPc = "a_idle"
  /\ smPc = "s_idle"
  /\ current_force \in ForceValues \cup {0}
  /\ mainPc = "op_idle"
  /\ target_force = 0
  /\ Kp = KP_DEFAULT
  /\ max_seconds = MaxDurationMs

ActuatorNext ==
  \/ ActEnable \/ ActCallDisable \/ ActCallStop \/ ActCallPwm \/ ActReturn
  \/ ManStep \/ ManInterrupt
  \/ DisableR \/ DisableL \/ DisableEn
  \/ FbStopR \/ FbStopL

ActuatorSpec == ActuatorInit /\ [][ActuatorNext]_vars

\* one cycle of the MotionDriver and one cycle of a manual drive routine on
\* the same driver, one after the other: the MotionDriver runs on a command
\* and a force that nothing else changes, its stop signal is set, and after
\* it has ended the manual routines are called; the line writes and sleeps
\* of the latest cycle of each are recorded
CycleInit ==
  /\ InitRest /\ LinesHeld /\ CalIdle /\ RecIdle /\ RcIdle
  /\ HxIdle /\ ManIdle
  /\ cycLog = TRUE /\ mdTrace = <<>> /\ manTrace = <<>>
  /\ \E d \in ManDuties, dir \in {-1, 0, 1} :
       /\ current_duty = d /\ current_dir = dir
       /\ dutyTag = <<d, dir>> /\ dirTag = <<d, dir>>
  /\ mdPc = "a_check"
  /\ smPc = "s_idle"
  /\ current_force \in ForceValues \cup {0}
  /\ mainPc = "op_idle"
  /\ target_force = 0
  /\ Kp = KP_DEFAULT
  /\ max_seconds = MaxDurationMs

\* line 314: actuator_stop_event.set()
CycleStop ==
  /\ mainPc = "op_idle"
  /\ ~actuator_stop_event
  /\ actuator_stop_event' = TRUE
  /\ UNCHANGED <<devv, sharedv, linev, read_stop_event, mainPc, seqv, framev, exc,
                 mdPc, mdlocv, smPc, histv>>

\* a manual routine is called once the MotionDriver has ended
CycleCall ==
  /\ mdPc = "a_done"
  /\ ActCallPwm

CycleNext == MdStep \/ CycleStop \/ CycleCall \/ ManStep \/ ActReturn

CycleSpec == CycleInit /\ [][CycleNext]_vars

\* the repetitions with their records, the ForceSampler running beside
RecordInit ==
  /\ InitRest /\ LinesHeld /\ CalIdle /\ RecIdle /\ RcIdle /\ CycIdle
  /\ HxIdle /\ ManIdle
  /\ InitCommand
  /\ mdPc = "a_idle"
  /\ smPc = "s_check"
  /\ current_force = 0
  /\ mainPc = "r_rep"
  /\ target_force = 0
  /\ Kp = KP_DEFAULT
  /\ max_seconds = MaxDurationMs

RecordNext == RecMain \/ LogStep \/ SamplerStep

RecordSpec == RecordInit /\ [][RecordNext]_vars

\* the reading loop of a sensor script, before its first read
RecoveryInit ==
  /\ InitRest /\ LinesHeld /\ CalIdle /\ RecIdle /\ CycIdle
  /\ HxIdle /\ ManIdle
  /\ InitCommand
  /\ mdPc = "a_idle"
  /\ smPc = "s_idle"
  /\ current_force = 0
  /\ mainPc = "op_idle"
  /\ target_force = 0
  /\ Kp = KP_DEFAULT
  /\ max_seconds = MaxDurationMs
  /\ rcScript \in RcScripts
  /\ rcPc = "rc_read"
  /\ rcWoke = FALSE /\ sinceWake = 0 /\ rcReadAt = 0 /\ rcCycles = 0

RecoverySpec == RecoveryInit /\ [][RcStep]_vars

\* a sampling loop with its reads, in each script, for each value of its
\* arguments; in the main script the main thread is at line 313, about to
\* set the stop signals and to join the reader
SamplerInit ==
  /\ InitRest /\ LinesHeld /\ RecIdle /\ RcIdle /\ CycIdle
  /\ HxIdle /\ ManIdle
  /\ InitCommand
  /\ mdPc = "a_idle"
  /\ smPc = "c_check"
  /\ current_force = 0
  /\ mainPc = "m_set_rstop"
  /\ target_force = 0
  /\ Kp = KP_DEFAULT
  /\ max_seconds = MaxDurationMs
  /\ calScript \in CalScripts
  /\ calSamples \in (IF calScript = "main" THEN SampleCounts ELSE {1})
  /\ calNoise \in (IF calScript = "main" THEN NoiseFactors ELSE {1})
  /\ calReadings = <<>>
  /\ calReady \in BOOLEAN

\* lines 313-315 of the main script
SamplerMain ==
  /\ calScript = "main"
  /\ (SetReadStop \/ SetActuatorStop \/ JoinReader)

SamplerNext == CalStep \/ SensorConvert \/ SamplerMain

SamplerSpec == SamplerInit /\ [][SamplerNext]_vars

\* the sampler thread and the main thread keep running; nothing obliges the
\* sensor to complete a conversion
FairSamplerSpec ==
  SamplerSpec /\ WF_vars(CalStep) /\ WF_vars(SamplerMain)

\* ------------------------------------------------------------ claims
RetractPcs == {"a_r_r1", "a_r_l0", "a_r_high"}
HandlerPcs == {"h_dis_r", "h_dis_l", "h_dis_en", "fin_pd", "fin_close", "terminated"}

\* C1: in a MotionDriver cycle whose snapshot has force < force_threshold,
\* the cycle never takes the no-motion or the extend branch: after the
\* override it emits the retract pattern with the locals (1.0, Retract) and
\* a high interval of one full period, whatever the controller writes into
\* CommandState meanwhile.
C1_SafetyInterlock ==
  mdBreach =>
    /\ mdPc \in {"a_ov_dir", "a_ov_duty"} \cup RetractPcs
    /\ mdPc \in RetractPcs =>
         /\ mdDirection = -1
         /\ mdDuty = DutyOne
         /\ high_time = PERIOD_US
         /\ low_time = 0

\* C1 witness: MotionDriver is in the high interval of an override cycle
\* while CommandState holds a controller command (1.0, Extend) written after
\* the override.
C1_Witness ==
  /\ mdBreach
  /\ mdPc = "a_r_high"
  /\ rpwm = 1 /\ lpwm = 0
  /\ current_dir = 1
  /\ current_duty = DutyOne

C3_NeutralThenStop ==
  (mainPc = "fb_exit" \/ (fbPath = "exc" /\ mainPc \in HandlerPcs))
    => (wroteStop /\ wroteZero /\ stopAfter)

\* C3 witness: the routine is left with an interrupt pending that was
\* raised in the loop after a driving command had been written.
C3_Witness ==
  /\ mainPc = "fb_exit"
  /\ fbPath = "exc"
  /\ exc = "KeyboardInterrupt"
  /\ droveInCall

\* C4 (as claimed): with no force below the threshold ever published and no
\* exception, from the return of the feedback routine until the controller
\* next writes a driving command both direction lines are low.
C4_StoppedAfterReturn ==
  (/\ fbReturned
   /\ exc = "none"
   /\ ~everBreach
   /\ mainPc \in FbPcs => ~droveInCall)
    => (rpwm = 0 /\ lpwm = 0)

\* C5 (as claimed): when the main thread ends after an interrupt or a fatal
\* exception raised with both threads started, both stop events are set, the actuator is disabled and the
\* sensor is powered down.
C5_ShutdownContract ==
  (mainPc = "terminated" /\ exc # "none" /\ smPc # "s_idle" /\ mdPc # "a_idle") =>
    /\ read_stop_event
    /\ actuator_stop_event
    /\ rpwm = 0 /\ lpwm = 0 /\ enable = 0
    /\ clock = 1

\* C6 (as claimed): before any write to CommandState, duty = 0 and
\* direction = Stop.
C6_InitialNeutral ==
  ~cmdWritten => (current_duty = 0 /\ current_dir = 0)

\* C6 (amended): before any write to CommandState, direction = Stop and
\* duty = FIXED_DUTY = 1.0, and no direction line is asserted.
C6_InitialCommand ==
  ~cmdWritten =>
    /\ current_duty = DutyOne
    /\ current_dir = 0
    /\ rpwm = 0 /\ lpwm = 0

\* C6 witness: MotionDriver has snapshotted the initial command and is in
\* its no-motion branch.
C6_Witness ==
  /\ ~cmdWritten
  /\ mdPc = "a_nm_r"
  /\ mdDuty = DutyOne
  /\ mdDirection = 0

\* C7: every call of the feedback routine ends; while it runs the elapsed
\* time never exceeds max_seconds plus one update_interval; and once the
\* elapsed time exceeds max_seconds the routine is never at a driving write
\* or the sleep that follows it.
C7_BoundedRun ==
  /\ [](mainPc \in FbPcs => elapsed <= max_seconds + UPDATE_INTERVAL_MS)
  /\ []((mainPc \in FbPcs /\ elapsed > max_seconds)
          => mainPc \notin {"fb_w_dir", "fb_w_duty", "fb_sleep"})
  /\ (mainPc \in FbPcs) ~> (mainPc \notin FbPcs)

\* C7 witness: the routine has taken the timeout branch one update_interval
\* after the last iteration that was still within max_seconds.
C7_Witness ==
  /\ mainPc = "fb_to_duty"
  /\ elapsed > max_seconds
  /\ elapsed - UPDATE_INTERVAL_MS <= max_seconds
  /\ droveInCall

\* C8 (as claimed): with the force frozen outside the tolerance band the
\* routine returns Timeout and leaves CommandState neutral.
C8_TimeoutOutcome ==
  (mainPc = "fb_exit" /\ Abs(target_force - current_force) > TOLERANCE)
    => (fbResult = "Timeout" /\ current_duty = 0 /\ current_dir = 0)

\* C9 (as claimed): in a call whose first check finds the force within
\* tolerance, entered with direction Stop and with no force below the
\* threshold ever published, no direction line is asserted from that check
\* to the return, and CommandState is (0, Stop) at the return.
C9_ImmediateSuccess ==
  [][(/\ ~droveInCall
      /\ dirStopAtCall
      /\ ~everBreach
      /\ exc = "none"
      /\ \/ mainPc \in {"fb_ok_dir", "fb_ok_duty"}
         \/ (fbPath = "success" /\
             mainPc \in {"fb_fin_dir", "fb_fin_duty", "fb_stop_r", "fb_stop_l"}))
     => /\ rpwm' <= rpwm
        /\ lpwm' <= lpwm
        /\ mainPc' = "fb_exit" => (current_duty' = 0 /\ current_dir' = 0)]_vars

\* C10 (as claimed): after a driving write CommandState holds
\* duty = clamp(Kp * |error|, 0, 1) and direction = Retract when error > 0,
\* Extend otherwise.
C10_ControlLaw ==
  mainPc = "fb_sleep" =>
    /\ current_duty = Max(0, Min(DutyOne, Kp * Abs(target_force - current_force)))
    /\ current_dir = (IF target_force - current_force > 0 THEN -1 ELSE 1)

\* C11 (as claimed): in every state the duty stored in CommandState lies in
\* [0, 1], whichever writer produced it and whatever the gain and the error.
C11_DutyInRange ==
  current_duty >= 0 /\ current_duty <= DutyOne

\* C16 (as claimed): the main thread executes hx.power_down(), which drives
\* the sensor's clock line, only when the ForceSampler thread is not running
\* (never started, or terminated), on the normal-completion path and on the
\* interrupt path.
C16_SingleSensorUser ==
  [][(mainPc = "fin_pd" /\ mainPc' = "fin_close" /\ exc \in {"none", "KeyboardInterrupt"})
       => smPc \in {"s_idle", "s_done"}]_vars

\* C12: the value read() returns is the 24-bit shift result minus 2^24 when
\* bit 23 of the shift result is set and the shift result itself otherwise,
\* so it lies in [-2^23, 2^23 - 1]; 0x800000 gives -8388608, 0x7FFFFF gives
\* 8388607 and 0x000001 gives 1.
C12_SignExtension ==
  (hxPc = "hx_ret" /\ hxOutcome = "sample") =>
    /\ hxValue \in 0..(WordMod - 1)
    /\ hxResult = (IF hxValue >= SignMask THEN hxValue - WordMod ELSE hxValue)
    /\ hxResult >= -SignMask /\ hxResult <= SignMask - 1
    /\ hxValue = 8388608 => hxResult = -8388608
    /\ hxValue = 8388607 => hxResult = 8388607
    /\ hxValue = 1 => hxResult = 1

\* C12 witness: the base read() has returned the most negative sample.
C12_Witness ==
  /\ hxPc = "hx_ret"
  /\ hxVariant = "base"
  /\ hxOutcome = "sample"
  /\ hxValue = 8388608
  /\ hxResult = -8388608

\* the variants whose transfer is the code of HX711.read: clock high, shift,
\* clock low, then the sample
PlainVariants == {"base", "polls"}

\* C13: in one read(), no clock pulse is emitted before the data line has
\* been read low; then 24 data pulses are emitted, each followed by one
\* sample of the data line, the samples being shifted in most significant
\* bit first; then one more pulse with no sample; and the clock line is low
\* when read() returns, after exactly 25 pulses and 24 samples.
C13_ReadProtocol ==
  hxVariant \in PlainVariants =>
    /\ hxPulses > 0 => hxReady
    /\ hxPc \in {"hx_wait", "hx_chk", "hx_exc", "hx_pu"} => hxPulses = 0
    /\ hxPc = "hx_bit_up" => (hxPulses = hxBits /\ hxSamples = hxBits /\ hxBits < HX_BITS)
    /\ hxPc \in {"hx_bit_down", "hx_bit_sample"} =>
         (hxPulses = hxBits + 1 /\ hxSamples = hxBits)
    /\ hxPc \in {"hx_bit_up", "hx_gain_up"} =>
         hxValue = hxWord \div (2 ^ (HX_BITS - hxBits))
    /\ hxPc = "hx_gain_up" => (hxPulses = HX_BITS /\ hxSamples = HX_BITS)
    /\ hxPc \in {"hx_gain_down", "hx_convert"} =>
         (hxPulses = HX_BITS + 1 /\ hxSamples = HX_BITS /\ hxValue = hxWord)
    /\ (hxPc = "hx_ret" /\ hxOutcome = "sample") =>
         (hxPulses = HX_BITS + 1 /\ hxSamples = HX_BITS /\ hxValue = hxWord /\ clock = 0)

\* C13 witness: the base read() has returned after shifting in the
\* alternating word 0xAAAAAA.
C13_Witness ==
  /\ hxVariant = "base"
  /\ hxPc = "hx_ret"
  /\ hxOutcome = "sample"
  /\ hxWord = 11184810
  /\ hxPulses = 25
  /\ clock = 0

\* the outcomes of a read() whose ready wait ran out: the exception of
\* check_load_cell.py and wait_for_ready, the None of read_with_debug
TimeoutOutcomes == {"exception", "none"}

\* C14: a bounded variant of read() never waits beyond its bound; it ends
\* with a timeout outcome only when the bound is used up, and then without
\* having emitted a clock pulse; when the wait loop is left with the data
\* line still high the call ends with the timeout outcome; when the data
\* line is read low before the bound is used up the call goes on to the
\* transfer, and a call that returns a sample has made the whole transfer.
\* The base variant never ends with a timeout outcome.
C14_BoundedReadyWait ==
  /\ [](hxCount <= ReadyBound(hxVariant))
  /\ [](hxOutcome \in TimeoutOutcomes =>
          /\ hxVariant # "base"
          /\ hxPulses = 0
          /\ hxCount >= ReadyBound(hxVariant))
  /\ []((hxPc = "hx_ret" /\ hxOutcome = "sample") =>
          (hxReady /\ hxPulses = HX_BITS + 1 /\ hxSamples = HX_BITS))
  /\ [][(hxPc = "hx_chk" /\ ~hxReady) => hxOutcome' \in TimeoutOutcomes]_vars
  /\ [][(hxPc = "hx_chk" /\ hxReady /\ hxCount < ReadyBound(hxVariant))
          => hxPc' = "hx_bit_up"]_vars
  /\ [][(hxPc = "hx_wait" /\ hxReady' /\ hxCount < ReadyBound(hxVariant))
          => hxPc' \in {"hx_chk", "hx_bit_up"}]_vars

\* C14 witness: the polling variant has raised after 1000 polls that all
\* read the data line high.
C14_Witness ==
  /\ hxVariant = "polls"
  /\ hxPc = "hx_exc"
  /\ hxOutcome = "exception"
  /\ ~hxReady
  /\ hxCount = READY_POLLS
  /\ hxPulses = 0

\* C15 (as claimed): in the sampling loop, when the sensor never becomes
\* ready the power-cycle retries stop after a bounded number: from some
\* point on the loop is no longer powering the sensor down and up.
C15_BoundedRetries ==
  [](~hxReady) => <>[](hxPc \notin {"hx_exc", "hx_pu"})

\* positions inside disable_motor() and inside stop()
DisablePcs == {"h_dis_r", "h_dis_l", "h_dis_en"}
StopPcs == {"fb_stop_r", "fb_stop_l"}

\* C17: disable_motor(), called by the one thread that uses the driver, from
\* any state of the three lines: both direction lines are low when it writes
\* the enable line, all three lines are low when it returns, and when it is
\* called with all three lines low none of its writes changes a line.
C17_DisableMotor ==
  /\ [](mainPc = "h_dis_l" => rpwm = 0)
  /\ [](mainPc = "h_dis_en" => (rpwm = 0 /\ lpwm = 0))
  /\ [](mainPc = "fin_pd" => (rpwm = 0 /\ lpwm = 0 /\ enable = 0))
  /\ [][(mainPc \in DisablePcs /\ rpwm = 0 /\ lpwm = 0 /\ enable = 0)
          => (rpwm' = 0 /\ lpwm' = 0 /\ enable' = 0)]_vars

\* C17 witness: disable_motor() has written rpwm and is about to write lpwm,
\* called in the high interval of a manual extend with the driver enabled.
C17_Witness ==
  /\ mainPc = "h_dis_l"
  /\ rpwm = 0 /\ lpwm = 1 /\ enable = 1
  /\ manRoutine = "pwm_control_extend"

\* C18: every step of stop() leaves the enable line, CommandState and
\* ForceReading as they are, whatever the enable line's value, and both
\* direction lines are low when stop() returns.
C18_StopFrame ==
  /\ [][(mainPc \in StopPcs) =>
          (enable' = enable /\ current_duty' = current_duty /\
           current_dir' = current_dir /\ current_force' = current_force)]_vars
  /\ [](mainPc = "fb_stop_l" => rpwm = 0)
  /\ [](mainPc = "fb_exit" => (rpwm = 0 /\ lpwm = 0))

\* C18 witness: stop() has written rpwm and is about to write lpwm, which a
\* manual drive routine left high, with the driver enabled and a driving
\* command in CommandState.
C18_Witness ==
  /\ mainPc = "fb_stop_l"
  /\ rpwm = 0 /\ lpwm = 1
  /\ enable = 1
  /\ current_dir = -1 /\ current_duty = DutyOne

\* C19 (as claimed): a manual drive routine runs exactly
\* int(duration * frequency) cycles and returns; in the high interval of
\* each cycle the line of the commanded direction is high and the other is
\* low; in the low interval both lines are low; both lines are low when the
\* routine returns.
C19_ManualPwm ==
  /\ mainPc = "p_high" => <<rpwm, lpwm>> = ManHighLines(manRoutine)
  /\ mainPc = "p_low" => (rpwm = 0 /\ lpwm = 0)
  /\ mainPc = "p_ret" => (rpwm = 0 /\ lpwm = 0 /\ manRan = manCycles)
  /\ mainPc # "p_raised"

\* C20 (as claimed): whatever the duty argument, the high interval of a
\* manual drive routine is period * clamp(duty, 0, 1) and the high and the
\* low interval are both within [0, period].
C20_ManualDutyClamp ==
  mainPc \in ManPcs =>
    /\ manHigh = (MAN_PERIOD_US * Max(0, Min(manDuty, DutyOne))) \div DutyOne
    /\ manHigh >= 0 /\ manHigh <= MAN_PERIOD_US
    /\ manLow >= 0 /\ manLow <= MAN_PERIOD_US

\* C21: for a duty d in [0, 1], every cycle of a manual drive routine
\* commands the high time period * d and the low time period * (1 - d),
\* which add up to one period; after N high intervals the commanded high
\* time is N * period * d (N * 5 ms for d = 0.5 at 100 Hz); and
\* MotionDriver's intervals for the same duty are period * d and
\* period * (1 - d) of its own period.
C21_PwmFidelity ==
  (mainPc \in ManPcs \cup {"p_ret"} /\ manDuty >= 0 /\ manDuty <= DutyOne) =>
    /\ manHigh * DutyOne = MAN_PERIOD_US * manDuty
    /\ manLow * DutyOne = MAN_PERIOD_US * (DutyOne - manDuty)
    /\ manHigh + manLow = MAN_PERIOD_US
    /\ manHighSum * DutyOne =
         (IF mainPc \in {"p_w3", "p_w4", "p_low"} THEN manRan + 1 ELSE manRan)
           * MAN_PERIOD_US * manDuty
    /\ (manDuty * 2 = DutyOne /\ mainPc = "p_ret") => manHighSum = manCycles * 5000
    /\ HighTime(manDuty) * DutyOne = PERIOD_US * manDuty
    /\ LowTime(manDuty) * DutyOne = PERIOD_US * (DutyOne - manDuty)
    /\ HighTime(manDuty) + LowTime(manDuty) = PERIOD_US

\* C21 witness: a manual extend at duty 0.5 has returned after two cycles
\* with 10 ms of commanded high time.
C21_Witness ==
  /\ mainPc = "p_ret"
  /\ manRoutine = "pwm_control_extend"
  /\ manDuty * 2 = DutyOne
  /\ manRan = 2
  /\ manHighSum = 10000

\* MotionDriver's own cycle: for a snapshot duty in [0, 1] the intervals of
\* a driving cycle are period * duty and period * (1 - duty)
MdIntervals ==
  (mdPc \in {"a_e_r0", "a_e_l1", "a_e_high", "a_r_r1", "a_r_l0", "a_r_high"}
     /\ mdDuty >= 0 /\ mdDuty <= DutyOne) =>
    /\ high_time * DutyOne = PERIOD_US * mdDuty
    /\ high_time + low_time = PERIOD_US

\* C22: the setpoints of a repetition are taken in list order, one at a
\* time; the feedback routine is entered only from the statement that has
\* just set the active target, and runs with that setpoint; the setpoint
\* index moves on only when the main thread is back at the loop head after
\* the routine has returned; and a routine that has returned, by success or
\* by timeout, is always followed by the loop head with the repetition and
\* the index unchanged, so that no setpoint and no repetition is skipped.
C22_SequenceOrder ==
  /\ []((mainPc \in FbPcs \cup {"fb_exit"} /\ exc = "none") =>
          (tgtIdx \in 1..NumTargets /\ target_force = TARGET_FORCES[tgtIdx]))
  /\ [][(exc' = "none" /\ tgtIdx' # tgtIdx) =>
          /\ mainPc = "m_tgt"
          /\ \/ (tgtIdx < NumTargets /\ tgtIdx' = tgtIdx + 1 /\ rep' = rep
                   /\ mainPc' = "m_set_tgt")
             \/ (tgtIdx = NumTargets /\ tgtIdx' = 0 /\ rep' = rep + 1)]_vars
  /\ [][(mainPc' = "fb_enable" /\ mainPc # "fb_enable") => mainPc = "m_set_tgt"]_vars
  /\ [][(mainPc = "m_set_tgt" /\ exc' = "none" /\ mainPc' # mainPc) =>
          mainPc' = "fb_enable"]_vars
  /\ [][(mainPc = "fb_exit" /\ exc = "none" /\ mainPc' # mainPc) =>
          (mainPc' = "m_tgt" /\ tgtIdx' = tgtIdx /\ rep' = rep) \/ exc' # "none"]_vars
  /\ [][(exc' = "none" /\ rep' # rep) => (rep' = rep + 1 /\ tgtIdx = NumTargets)]_vars

\* C22 witness: the second setpoint is about to be handed to the feedback
\* routine after the call for the first one ended by timeout.
C22_Witness ==
  /\ mainPc = "m_set_tgt"
  /\ tgtIdx = 2
  /\ fbPath = "timeout"
  /\ exc = "none"

\* C23: no thread is started, the enable line is not asserted and no
\* direction or clock line is asserted before the five lines are all held;
\* and a request that raises ends the run at once: no thread has been or is
\* ever started, no line is ever asserted, and nothing more happens.
C23_AcquireFirst ==
  /\ []((smPc # "s_idle" \/ mdPc # "a_idle" \/ enable = 1 \/ rpwm = 1 \/ lpwm = 1
           \/ clock = 1 \/ mainPc \notin {"m_acquire", AbortPc}) => LinesHeld)
  /\ [](mainPc = "m_aborted" =>
          /\ exc = "OSError" /\ ~LinesHeld
          /\ smPc = "s_idle" /\ mdPc = "a_idle"
          /\ rpwm = 0 /\ lpwm = 0 /\ enable = 0 /\ clock = 0)
  /\ [][(mainPc = "m_acquire" /\ exc' # "none") => mainPc' = "m_aborted"]_vars
  /\ [][(mainPc = "m_aborted") => UNCHANGED vars]_vars

\* C23 witness: the request of the sensor's data line raises after the three
\* lines of the actuator have been obtained.
C23_Witness ==
  /\ mainPc = "m_aborted"
  /\ acquired = 3
  /\ exc = "OSError"

\* C24: when an iteration of a sampling loop has published, it has taken
\* exactly `samples` reads, and the published force is the quotient
\* (sum/samples - offset) / (scale * noise) of these reads rounded to the
\* nearest unit of the force; with noise = 1 the raw value recovered as
\* force * scale + offset differs from the mean of the reads by no more than
\* the two roundings (half a unit of the force, half a raw count).
C24_Calibration ==
  (smPc \in {"c_check", "s_done"} /\ calReadings # <<>>) =>
    /\ Len(calReadings) = calSamples
    /\ Abs(current_force * (ScaleOf(calScript) * calNoise * calSamples)
             - (SeqSum(calReadings) - calSamples * OffsetOf(calScript)) * ForceUnit) * 2
         <= ScaleOf(calScript) * calNoise * calSamples
    /\ calNoise = 1 =>
         Abs(calSamples * Uncalibrate(calScript, current_force) - SeqSum(calReadings))
             * 2 * ForceUnit
           <= calSamples * (ScaleOf(calScript) + ForceUnit)

\* C24 witness: the main script's loop with samples = 2 has published the
\* force of the mean of the largest and the smallest raw value, which is
\* (-0.5 - 25000) / 75000 lb, -0.33 lb to the nearest hundredth.
C24_Witness ==
  /\ smPc = "c_check"
  /\ calScript = "main" /\ calSamples = 2 /\ calNoise = 1
  /\ calReadings = <<8388607, -8388608>>
  /\ current_force = -33

\* C25: the shared force has one writer.  Every step that changes
\* current_force is the publishing step of the ForceSampler (line 145); no
\* step of the main thread (the feedback routine included), of the
\* MotionDriver or of the logger changes it.
C25_SingleWriter ==
  [][(current_force' # current_force) =>
       (smPc = "s_read" /\ smPc' = "s_check" /\ mainPc' = mainPc /\ mdPc' = mdPc
        /\ logPc' = logPc)]_vars

\* C25 witness: the sampler has published a force below the threshold, the
\* MotionDriver has read it in its snapshot and the feedback routine has
\* read it to compute its command; the force is as published.
C25_Witness ==
  /\ current_force = -10100
  /\ mdPc = "a_ov_dir" /\ mdBreach
  /\ mainPc = "fb_w_dir"
  /\ fbDuty = ControlDuty(Kp, target_force - current_force)

\* the logger only reads: no step of the logger thread changes the shared
\* force, CommandState or the target holder, and the force of a row is the
\* one it read under the lock
LoggerReadsOnly ==
  [][(logPc' # logPc /\ mainPc' = mainPc) =>
       (current_force' = current_force /\ current_duty' = current_duty
        /\ current_dir' = current_dir /\ target_holder' = target_holder)]_vars

LoggerHasRead ==
  logPc = "l_row" /\ logF = -10100 /\ current_force = -200 /\ target_holder = <<-200>>

\* positions of the MotionDriver between the first line write of a cycle
\* and the end of the cycle
DrivePcs == {"a_nm_r", "a_nm_l", "a_e_r0", "a_e_l1", "a_e_high",
             "a_r_r1", "a_r_l0", "a_r_high"}

\* C26: in a cycle whose snapshot has force < force_threshold the
\* MotionDriver writes direction Retract and duty 1.0 inside one critical
\* section: it holds the lock between the two writes and no other thread
\* changes CommandState meanwhile, and when it leaves the section
\* CommandState is (1.0, Retract).  The override steps write no line, and
\* the cycle reaches its first line write only by the step that completes
\* the override.  In such a cycle what is driven is the override, not the
\* pair read in any snapshot.
C26_OverrideOrdering ==
  /\ [](mdPc = "a_ov_duty" => (lock = "md" /\ current_dir = -1 /\ mdBreach))
  /\ [][(mdPc = "a_ov_duty" /\ mdPc' = "a_ov_duty") =>
          (current_duty' = current_duty /\ current_dir' = current_dir)]_vars
  /\ [][(mdPc = "a_ov_duty" /\ mdPc' # "a_ov_duty") =>
          (current_duty' = DutyOne /\ current_dir' = -1 /\ lock' = "none"
           /\ mdPc' = "a_r_r1")]_vars
  /\ [][(mdPc \in {"a_ov_dir", "a_ov_duty"} /\ mdPc' # mdPc) =>
          (rpwm' = rpwm /\ lpwm' = lpwm)]_vars
  /\ [][(mdBreach' /\ mdPc' \in DrivePcs /\ mdPc \notin DrivePcs) =>
          mdPc = "a_ov_duty"]_vars
  /\ []((mdBreach /\ mdPc \in DrivePcs) =>
          (mdPc \in RetractPcs /\ mdDuty = DutyOne /\ mdDirection = -1))

\* C26 witness: the override has just been written and the first line write
\* of the cycle is still to come, both lines low, while the controller is
\* inside its loop with an Extend command computed.
C26_Witness ==
  /\ mdBreach /\ mdPc = "a_r_r1"
  /\ current_duty = DutyOne /\ current_dir = -1
  /\ rpwm = 0 /\ lpwm = 0
  /\ mainPc = "fb_w_dir" /\ fbDirection = 1

\* positions of the MotionDriver inside the no-motion branch, lines 175-178
NoMotionPcs == {"a_nm_r", "a_nm_l"}

\* C27: the snapshot of a cycle is CommandState as it is when the lock is
\* released, and the branch the cycle takes is decided by that snapshot and
\* the force read with it.  A cycle whose command after the safety check has
\* duty <= 0 or direction Stop takes the no-motion branch: it writes rpwm
\* low, then lpwm low, then sleeps one period; both lines are low all
\* through the branch and no step of any thread raises one.
C27_NoMotion ==
  /\ [](mdPc = "a_snap_force" =>
          (lock = "md" /\ mdDuty = current_duty /\ mdDirection = current_dir))
  /\ [][(mdPc = "a_snap_force" /\ mdPc' # mdPc) =>
          mdPc' = (IF current_force < FORCE_THRESHOLD THEN "a_ov_dir"
                   ELSE IF (mdDuty <= 0 \/ mdDirection = 0) THEN "a_nm_r"
                   ELSE IF mdDirection > 0 THEN "a_e_r0" ELSE "a_r_r1")]_vars
  /\ [](mdPc \in NoMotionPcs =>
          /\ ~mdBreach
          /\ (mdDuty <= 0 \/ mdDirection = 0)
          /\ rpwm = 0 /\ lpwm = 0
          /\ CycleLength(mdDuty, mdDirection) = PERIOD_US)
  /\ [][(mdPc = "a_nm_r" /\ mdPc' # mdPc) => (mdPc' = "a_nm_l" /\ rpwm' = 0)]_vars
  /\ [][(mdPc = "a_nm_l" /\ mdPc' # mdPc) => (mdPc' = "a_check" /\ lpwm' = 0)]_vars
  /\ [][(mdPc \in NoMotionPcs) => (rpwm' = 0 /\ lpwm' = 0)]_vars
  /\ [](mdPc \in {"a_check", "a_snap_duty", "a_snap_dir", "a_snap_force",
                  "a_ov_dir", "a_ov_duty"} => (rpwm = 0 /\ lpwm = 0))

\* C27 witness: a no-motion cycle taken for a snapshot with full duty and
\* direction Stop (the command at start-up), between its two line writes,
\* while the controller has already stored a driving command.
C27_Witness ==
  /\ mdPc = "a_nm_l"
  /\ mdDuty = DutyOne /\ mdDirection = 0
  /\ current_dir # 0
  /\ rpwm = 0 /\ lpwm = 0

\* C28: the latest cycle of the MotionDriver, driven with a duty in (0, 1]
\* and a direction, and a complete cycle of the manual routine of that
\* direction called with the same duty make the same record: the same
\* writes of the same lines with the same values in the same order, and
\* sleeps that take the same shares of the period.
C28_CycleEquivalence ==
  (/\ mdPc = "a_done" /\ mdTrace # <<>>
   /\ mainPc \in {"p_loop", "p_ret"} /\ manRan >= 1
   /\ manDuty > 0 /\ manDuty <= DutyOne
   /\ manDuty = current_duty
   /\ \/ (manRoutine = "pwm_control_extend" /\ current_dir > 0)
      \/ (manRoutine = "pwm_control_retract" /\ current_dir < 0))
    => mdTrace = manTrace

\* C28 witness: both have driven Extend at half duty; the record is rpwm
\* low, lpwm high, half a period, lpwm low, half a period.
C28_Witness ==
  /\ mdPc = "a_done" /\ mainPc = "p_ret"
  /\ manRoutine = "pwm_control_extend" /\ manRan = 2
  /\ manDuty * 2 = DutyOne /\ current_duty = manDuty /\ current_dir = 1
  /\ manTrace = <<<<"rpwm", 0>>, <<"lpwm", 1>>, <<"sleep", 10000>>,
                  <<"lpwm", 0>>, <<"sleep", 10000>>>>
  /\ mdTrace = manTrace

\* C29: the MotionDriver loop ends only at its loop test and only with its
\* stop signal set; every other position leads on through the cycle
\* whatever the signal is; once the signal is set no new cycle is started,
\* so the loop ends after the cycle in progress, and it does end; and when
\* it has ended both direction lines are low.
C29_DriverCancellation ==
  /\ [](mdPc = "a_done" => (actuator_stop_event /\ rpwm = 0 /\ lpwm = 0))
  /\ [][(mdPc' = "a_done" /\ mdPc # "a_done") =>
          (mdPc = "a_check" /\ actuator_stop_event)]_vars
  /\ [][(mdPc = "a_check" /\ actuator_stop_event /\ mdPc' # mdPc) =>
          mdPc' = "a_done"]_vars
  /\ [][(mdPc \in DrivePcs /\ mdPc' # mdPc) =>
          mdPc' \in DrivePcs \cup {"a_check"}]_vars
  /\ (actuator_stop_event ~> mdPc = "a_done")

\* C29 witness: the stop signal is set while the MotionDriver is in the high
\* interval of a Retract cycle, with rpwm asserted.
C29_Witness ==
  /\ actuator_stop_event
  /\ mdPc = "a_r_high"
  /\ rpwm = 1

\* C30 (as claimed): in the sampling loop of the main script the stop signal
\* is tested at the loop test only, and a set signal ends the loop there; an
\* iteration that has started takes all its reads and publishes; once the
\* signal is set the loop ends; and the join of the main thread returns.
C30_SamplerCancellation ==
  /\ [][(calScript = "main" /\ smPc' = "s_done" /\ smPc # "s_done") =>
          (smPc = "c_check" /\ read_stop_event)]_vars
  /\ [][(calScript = "main" /\ smPc = "c_check" /\ read_stop_event /\ smPc' # smPc) =>
          smPc' = "s_done"]_vars
  /\ ((calScript = "main" /\ smPc = "c_read") ~> smPc = "c_check")
  /\ ((calScript = "main" /\ read_stop_event) ~> smPc = "s_done")
  /\ ((calScript = "main" /\ mainPc = "m_join_r") ~> mainPc = "m_join_a")

\* the same with a sensor that keeps completing conversions: the loop test,
\* the completion of a started iteration, the end of the loop after the
\* signal and the return of the join
SamplerEndsWithLiveSensor ==
  ([]<>calReady) =>
    /\ ((calScript = "main" /\ smPc = "c_read") ~> smPc = "c_check")
    /\ ((calScript = "main" /\ read_stop_event) ~> smPc = "s_done")
    /\ ((calScript = "main" /\ mainPc = "m_join_r") ~> mainPc = "m_join_a")

\* once the signal is set the sampler starts no further iteration: it ends
\* after the iteration in progress
SamplerStopsAtTest ==
  /\ [][(calScript = "main" /\ smPc' = "s_done" /\ smPc # "s_done") =>
          (smPc = "c_check" /\ read_stop_event)]_vars
  /\ [][(calScript = "main" /\ smPc = "c_check" /\ read_stop_event /\ smPc' # smPc) =>
          smPc' = "s_done"]_vars
  /\ [][(smPc \in {"c_read", "c_publish"} /\ smPc' # smPc) =>
          smPc' \in {"c_read", "c_publish", "c_check"}]_vars

\* C31: the lock is held only inside the critical sections: by the
\* MotionDriver between the reads of its snapshot and between the two
\* writes of its override, by the main thread between the two writes of a
\* command, by the logger while it reads the force; never by the
\* MotionDriver from the first line write of a cycle to the cycle's end.
\* The lock is taken only when it is free.  A step taken by the holder
\* writes no line, and the holder's section is over after at most two of
\* its steps; the holder can always take its next step, so no thread waits
\* for the lock for ever.
C31_LockDiscipline ==
  /\ [](lock = "md" => mdPc \in {"a_snap_dir", "a_snap_force", "a_ov_duty"})
  /\ [](lock = "main" => mainPc \in {"fb_ok_duty", "fb_to_duty", "fb_w_duty", "fb_fin_duty"})
  /\ [](lock = "logger" => logPc = "l_read")
  /\ [](mdPc \in DrivePcs => lock # "md")
  /\ [][(lock' # lock /\ lock' # "none") => lock = "none"]_vars
  /\ [][(lock = "md" /\ mdPc' # mdPc) =>
          (rpwm' = rpwm /\ lpwm' = lpwm /\ enable' = enable /\ clock' = clock)]_vars
  /\ [][(lock = "main" /\ mainPc' # mainPc) =>
          (rpwm' = rpwm /\ lpwm' = lpwm /\ enable' = enable /\ clock' = clock
           /\ lock' = "none")]_vars
  /\ [][(lock = "md" /\ mdPc \in {"a_snap_force", "a_ov_duty"} /\ mdPc' # mdPc) =>
          lock' = "none"]_vars
  /\ [][(lock = "md" /\ mdPc = "a_snap_dir" /\ mdPc' # mdPc) =>
          mdPc' = "a_snap_force"]_vars
  /\ [](lock = "md" => ENABLED MdStep)
  /\ [](lock = "main" => ENABLED MainStep)

\* C31 witness: the MotionDriver holds the lock between the two writes of
\* its override while the controller stands at the entry of its own
\* critical section, waiting.
C31_Witness ==
  /\ lock = "md" /\ mdPc = "a_ov_duty"
  /\ mainPc = "fb_w_dir"
  /\ rpwm = 0 /\ lpwm = 0

\* positions of a logger thread that has been started and has not ended
LogRunPcs == {"l_check", "l_lock", "l_read", "l_row"}

\* no setpoint of the current repetition has been stored in the holder yet
NoSetpointYet == tgtIdx = 0 \/ (tgtIdx = 1 /\ mainPc = "r_set")

\* the setpoint the main thread has stored last in the holder
ActiveTarget ==
  IF NoSetpointYet THEN <<>>
  ELSE IF mainPc = "r_set" THEN <<TARGET_FORCES[tgtIdx - 1]>>
  ELSE <<TARGET_FORCES[tgtIdx]>>

C37_ClosedAfterJoin ==
  /\ [][(logPc = "l_row" /\ logPc' # logPc /\ lastRow' # lastRow) => fileOpen]_vars
  /\ [][(fileOpen /\ ~fileOpen') => logPc \notin LogRunPcs]_vars

\* what holds of the record: a write to the closed file appends nothing,
\* it raises in the logger thread
ClosedRecordRejectsRows ==
  [][(logPc = "l_row" /\ logPc' # logPc) =>
       IF fileOpen THEN logPc' = "l_check"
       ELSE (logPc' = "l_raised" /\ lastRow' = lastRow)]_vars

\* what holds of the normal path: the record is closed with the logger
\* signalled and joined
JoinedOnNormalPath ==
  [][(fileOpen /\ ~fileOpen' /\ exc' = "none") =>
       (log_stop_event /\ logPc = "l_done")]_vars

\* the interrupt path: the record is closed, the program has terminated
\* and the logger, never signalled, has raised on its write
LoggerOutlivesRecord ==
  /\ mainPc = "terminated" /\ exc = "KeyboardInterrupt"
  /\ ~fileOpen /\ ~log_stop_event /\ logPc = "l_raised"

\* C33: power_down() leaves the clock line high and power_up() leaves it
\* low.  After a power cycle of a recovery path, every read starts at least
\* one conversion period after power_up(): the read that starts while the
\* sensor is awake since a power_up() starts CONVERSION_PERIOD_MS or more
\* after it, so no sample taken inside the wake-up window is returned.
C33_WakeUpWindow ==
  /\ [][((rcPc = "rc_pd" /\ rcPc' = "rc_s1") \/ (rcPc = "rc_fin" /\ rcPc' = "rc_done"))
          => clock' = 1]_vars
  /\ [][(rcPc = "rc_pu" /\ rcPc' = "rc_s2") => clock' = 0]_vars
  /\ [](rcPc \in {"rc_s1", "rc_done"} => clock = 1)
  /\ []((rcPc = "rc_read" /\ rcWoke) => sinceWake >= CONVERSION_PERIOD_MS)
  /\ [][(rcPc = "rc_read" /\ rcPc' # rcPc /\ rcPc' # "rc_fin" /\ rcWoke)
          => rcReadAt' >= CONVERSION_PERIOD_MS]_vars

\* C33 witness: a read has failed, the sensor has been power-cycled, the
\* sleep after power_up() was cut short by an interrupt swallowed in the
\* power cycle, and the next read has returned a sample; it started 500 ms
\* after power_up().
C33_Witness ==
  /\ rcScript = "diagnose" /\ rcPc = "rc_err"
  /\ rcWoke /\ rcCycles = 1 /\ clock = 0
  /\ rcReadAt = RC_RETRY_MS

\* C34: the two direction lines rpwm and lpwm are never high together,
\* whatever the interleaving of the MotionDriver's cycles with the stop()
\* of the feedback routine and with disable_motor() of the interrupt
\* handler; a line is raised only by the MotionDriver, inside a cycle, and
\* only while the other line is low or is lowered by the cycle's next write.
C34_HBridgeExclusion ==
  /\ [](~(rpwm = 1 /\ lpwm = 1))
  /\ [][(rpwm' = 1 /\ rpwm = 0) => (mdPc = "a_r_r1" /\ lpwm = 0 /\ mainPc' = mainPc)]_vars
  /\ [][(lpwm' = 1 /\ lpwm = 0) => (mdPc = "a_e_l1" /\ rpwm = 0 /\ mainPc' = mainPc)]_vars

\* C34 witness: the interrupt handler is inside disable_motor(), between
\* its writes of rpwm and lpwm, while the MotionDriver, overriding after a
\* breach, is in the high interval of a retract cycle.
C34_Witness ==
  /\ mainPc = "h_dis_l" /\ exc = "KeyboardInterrupt"
  /\ mdPc = "a_r_high" /\ rpwm = 1 /\ lpwm = 0
  /\ everBreach

\* CommandState holds the override
OverrideHeld ==
  /\ current_duty = OverrideDuty(current_duty)
  /\ current_dir = OverrideDirection(current_dir)

\* C35: the MotionDriver changes CommandState only by the two writes of
\* its override; it never clears or restores it, so an override in
\* CommandState is changed only by a step of the main thread, a write of
\* the controller.  The snapshot of a cycle is CommandState as it is then,
\* so a cycle that starts while the override is held and whose force is
\* not below the threshold drives Retract for the whole period, also when
\* no feedback call is running any more.
C35_OverridePersistence ==
  /\ [][(mdPc' # mdPc /\ <<current_duty, current_dir>>' # <<current_duty, current_dir>>) =>
          (mdPc \in {"a_ov_dir", "a_ov_duty"}
           /\ current_duty' \in {current_duty, OverrideDuty(current_duty)}
           /\ current_dir' \in {current_dir, OverrideDirection(current_dir)})]_vars
  /\ [][(OverrideHeld /\ ~OverrideHeld') =>
          (mainPc' # mainPc /\ mdPc' = mdPc /\ smPc' = smPc)]_vars
  /\ [](mdPc = "a_snap_force" => (mdDuty = current_duty /\ mdDirection = current_dir))
  /\ [][(mdPc = "a_snap_force" /\ mdPc' # mdPc /\ OverrideHeld /\ ~Breach(current_force)) =>
          (mdPc' = "a_r_r1" /\ high_time' = PERIOD_US /\ low_time' = 0)]_vars

\* C35 witness: every feedback call has returned and the main thread is
\* about to signal the threads; the MotionDriver, which wrote its override
\* in an earlier cycle, is in the high interval of a Retract cycle started
\* with the force back above the threshold.
C35_Witness ==
  /\ mainPc = "m_set_rstop" /\ exc = "none"
  /\ OverrideHeld
  /\ mdPc = "a_r_high" /\ ~mdBreach /\ rpwm = 1
  /\ high_time = PERIOD_US
  /\ ~Breach(current_force)

\* the main thread has left main() after all repetitions, with no exception
NormalExit == mainPc = "terminated" /\ exc = "none"

\* C36 (as claimed): when the program has completed all repetitions and
\* exits, both background threads have been signalled and have ended,
\* CommandState is neutral, both direction lines are low, the enable line
\* is deasserted and the sensor is powered down.
C36_SafeCompletion ==
  NormalExit =>
    /\ read_stop_event /\ actuator_stop_event
    /\ smPc = "s_done" /\ mdPc = "a_done"
    /\ <<current_duty, current_dir>> = Neutral
    /\ rpwm = 0 /\ lpwm = 0
    /\ enable = 0
    /\ clock = 1

\* what holds at normal completion: the threads are signalled and joined,
\* the direction lines are low and the sensor is powered down
CompletionStopsThreads ==
  NormalExit =>
    /\ read_stop_event /\ actuator_stop_event
    /\ smPc = "s_done" /\ mdPc = "a_done"
    /\ rpwm = 0 /\ lpwm = 0
    /\ clock = 1

\* what does not: after a run with a feedback call the enable line is
\* still asserted at exit
CompletionLeavesEnabled ==
  (NormalExit /\ fbReturned) => enable = 1

\* the program has exited normally with the override in CommandState and
\* the driver enabled
ExitWithOverride ==
  NormalExit /\ OverrideHeld /\ enable = 1

=============================================================================
